---- MODULE Spec2Model ----
(***************************************************************************)
(* VSEPR-SIM analytic control loop: the discovery catalog                  *)
(* (tools/discovery_pipeline.py), the scorer (tools/scoring.py), the       *)
(* classifier (tools/classification.py), the coverage grid                 *)
(* (tools/gap_targeter.py) and the database lookup                         *)
(* (tools/chemical_validator.py).                                          *)
(*                                                                         *)
(* Real numbers are carried as integers in thousandths ("milli"): 1.0 is   *)
(* 1000, 0.01 is 10, 1e6 is 1000000000.  The statistics of the coverage    *)
(* grid are carried as exact fractions.                                    *)
(***************************************************************************)
EXTENDS Integers, Sequences, FiniteSets, TLC

(***************************************************************************)
(* Bounds of the model                                                     *)
(***************************************************************************)
\* number of DiscoveryPipeline instances (processes) sharing out/discoveries
\* and out/catalog
NumPipelines == 2
\* total number of run_discovery_workflow calls over all instances
MaxRecords == 3
\* datetime.now() takes the values 0..MaxClock, in units of the 0.1 s that
\* survive the [:17] cut of the run id
MaxClock == 1
\* uuid4().hex[:4] takes the values 0..MaxSuffix
MaxSuffix == 1

Pipelines == 1..NumPipelines
RecordIds == 1..MaxRecords
Timestamps == 0..MaxClock
Suffixes == 0..MaxSuffix
\* run_id = "run_" + timestamp[:17] + "_" + uuid4().hex[:4]
RunIds == Timestamps \X Suffixes

VARIABLES
    catalog_file,   \* out/discoveries/discovery_catalog.json
    cards_index,    \* out/catalog/cards_index.json
    run_dirs,       \* out/catalog/<run_id>/ and the files in it
    catalog,        \* self.catalog of each instance
    cards,          \* self.cards of each instance
    pc,             \* position of each instance
    record,         \* the DiscoveryRecord of the call in progress
    run_id,         \* the run_id of the call in progress
    clock,          \* datetime.now()
    n_records,      \* number of DiscoveryRecords created so far
    calls,          \* history: calls ended (returned or raised) per instance
    loaded,         \* history: lengths of the two lists when the instance loaded them
    outcome,        \* history: how the last call of the instance ended
    issued,         \* history: <<record id, run_id>> of every run id generated
    persisted,      \* history: last complete version of each persisted file
    args,           \* arguments of the pure function under check
    ret,            \* its result
    cells,          \* GapTargeter.cells: the cells that differ from a new Cell
    schedule,       \* the list of configs execute_schedule is working on
    run_index,      \* number of configs of the schedule executed so far
    n_recorded,     \* number of record_run calls so far
    successes,      \* history: energies of the successful runs of each cell
    seeds_used,     \* history: the seeds of the configs of earlier schedules
    report,         \* <output_dir>/coverage_report.json
    workers,        \* the record_run call in progress of each concurrent caller
    targeted,       \* history: number of record_run calls of the callers per cell
    saved,          \* history: the cells when the report was saved
    cache           \* ChemicalDatabase.cache: the PubChem data of each formula looked up

cvars == <<catalog_file, cards_index, run_dirs, catalog, cards, pc, record, run_id,
           clock, n_records, calls, loaded, outcome, issued, persisted>>
fvars == <<args, ret>>
xvars == <<seeds_used, report, workers, targeted, saved>>
gvars == <<cells, schedule, run_index, n_recorded, successes, xvars>>
dvars == <<cache>>
vars == <<cvars, fvars, gvars, dvars>>

NoArgs == [fn |-> "none"]
NoRet == [fn |-> "none"]

(***************************************************************************)
(* Helpers                                                                 *)
(***************************************************************************)
Min(a, b) == IF a <= b THEN a ELSE b
Max(a, b) == IF a >= b THEN a ELSE b
Abs(x) == IF x < 0 THEN -x ELSE x
Range(s) == {s[i] : i \in DOMAIN s}
IsPrefix(s, t) == Len(s) <= Len(t) /\ \A i \in 1..Len(s) : s[i] = t[i]

(***************************************************************************)
(* Files                                                                   *)
(* state: "absent" (no such file), "partial" (opened with 'w' and not yet  *)
(* dumped, or left with the tail of a longer dump), "ok" (a complete JSON  *)
(* array, whose entries are data)                                          *)
(***************************************************************************)
AbsentFile == [state |-> "absent", data |-> <<>>]
PartialFile == [state |-> "partial", data |-> <<>>]

\* _load_catalog / _load_cards_index: [] when the file does not exist
LoadJson(file) == IF file.state = "ok" THEN file.data ELSE <<>>

\* open(file, 'w'): the file exists and is empty
OpenW(file) == PartialFile

\* json.dump through a handle opened with 'w': the bytes go to offset 0 of
\* whatever the file holds now; a longer array dumped meanwhile by another
\* writer keeps its tail and the file is no JSON document
JsonDump(file, list) ==
    IF file.state = "ok" /\ Len(file.data) > Len(list)
    THEN PartialFile
    ELSE [state |-> "ok", data |-> list]

\* the last complete version, as a reader of the file saw it
Remember(old, file) == IF file.state = "ok" THEN file.data ELSE old

\* fields of the dataclass DiscoveryRecord
DiscoveryRecordFields ==
    {"formula", "generation_method", "energy", "max_force", "converged", "stable",
     "database_validated", "is_novel", "confidence", "notes", "xyz_file", "timestamp"}

\* a RunCard, as far as the catalog tells cards apart: the record it was made
\* of and its run_id
Card(rec, id) == [id |-> rec.id, run_id |-> id]

NoRecord == [id |-> 0, timestamp |-> 0]
NoRunId == <<-1, -1>>
NoDir == [exists |-> FALSE, structure |-> 0, summary |-> 0, metrics |-> 0]

(***************************************************************************)
(* The catalog                                                             *)
(***************************************************************************)
CatalogInit ==
    /\ catalog_file = AbsentFile
    /\ cards_index = AbsentFile
    /\ run_dirs = [r \in RunIds |-> NoDir]
    /\ catalog = [p \in Pipelines |-> <<>>]
    /\ cards = [p \in Pipelines |-> <<>>]
    /\ pc = [p \in Pipelines |-> "none"]
    /\ record = [p \in Pipelines |-> NoRecord]
    /\ run_id = [p \in Pipelines |-> NoRunId]
    /\ clock = 0
    /\ n_records = 0
    /\ calls = [p \in Pipelines |-> 0]
    /\ loaded = [p \in Pipelines |-> [catalog |-> 0, cards |-> 0]]
    /\ outcome = [p \in Pipelines |-> "none"]
    /\ issued = {}
    /\ persisted = [catalog |-> <<>>, cards |-> <<>>]

\* DiscoveryPipeline.__init__: json.load raises on a file that is no JSON
\* document, and then there is no instance
Construct(p) ==
    /\ pc[p] = "none"
    /\ catalog_file.state # "partial"
    /\ cards_index.state # "partial"
    /\ catalog' = [catalog EXCEPT ![p] = LoadJson(catalog_file)]
    /\ cards' = [cards EXCEPT ![p] = LoadJson(cards_index)]
    /\ loaded' = [loaded EXCEPT ![p] = [catalog |-> Len(LoadJson(catalog_file)),
                                        cards |-> Len(LoadJson(cards_index))]]
    /\ calls' = [calls EXCEPT ![p] = 0]
    /\ outcome' = [outcome EXCEPT ![p] = "none"]
    /\ pc' = [pc EXCEPT ![p] = "idle"]
    /\ UNCHANGED <<catalog_file, cards_index, run_dirs, record, run_id, clock,
                   n_records, issued, persisted>>

\* the wall clock moves on
Tick ==
    /\ clock < MaxClock
    /\ clock' = clock + 1
    /\ UNCHANGED <<catalog_file, cards_index, run_dirs, catalog, cards, pc, record,
                   run_id, n_records, calls, loaded, outcome, issued, persisted>>

\* run_discovery_workflow, steps 1-5 up to the open() of _save_catalog
AppendToCatalog(p) ==
    /\ pc[p] = "idle"
    /\ n_records < MaxRecords
    /\ n_records' = n_records + 1
    /\ record' = [record EXCEPT ![p] = [id |-> n_records + 1, timestamp |-> clock]]
    /\ catalog' = [catalog EXCEPT ![p] = Append(@, n_records + 1)]
    /\ persisted' = [persisted EXCEPT !.catalog = Remember(@, catalog_file)]
    /\ catalog_file' = OpenW(catalog_file)
    /\ outcome' = [outcome EXCEPT ![p] = "running"]
    /\ pc' = [pc EXCEPT ![p] = "save_catalog"]
    /\ UNCHANGED <<cards_index, run_dirs, cards, run_id, clock, calls, loaded, issued>>

\* _save_catalog: json.dump(self.catalog, f)
SaveCatalog(p) ==
    /\ pc[p] = "save_catalog"
    /\ persisted' = [persisted EXCEPT !.catalog = Remember(@, catalog_file)]
    /\ catalog_file' = JsonDump(catalog_file, catalog[p])
    /\ pc' = [pc EXCEPT ![p] = "run_card"]
    /\ UNCHANGED <<cards_index, run_dirs, catalog, cards, record, run_id, clock,
                   n_records, calls, loaded, outcome, issued>>

\* _generate_run_card: the run id and run_dir.mkdir(exist_ok=True)
MakeRunDir(p) ==
    /\ pc[p] = "run_card"
    /\ \E suffix \in Suffixes :
         LET id == <<record[p].timestamp, suffix>> IN
         /\ run_id' = [run_id EXCEPT ![p] = id]
         /\ run_dirs' = [run_dirs EXCEPT ![id].exists = TRUE]
         /\ issued' = issued \cup {<<record[p].id, id>>}
    /\ pc' = [pc EXCEPT ![p] = "copy"]
    /\ UNCHANGED <<catalog_file, cards_index, catalog, cards, record, clock,
                   n_records, calls, loaded, outcome, persisted>>

\* _generate_run_card: shutil.copy(xyz_file, run_dir / "structure.xyz")
CopyStructure(p) ==
    /\ pc[p] = "copy"
    /\ run_dirs' = [run_dirs EXCEPT ![run_id[p]].structure = record[p].id]
    /\ pc' = [pc EXCEPT ![p] = "score"]
    /\ UNCHANGED <<catalog_file, cards_index, catalog, cards, record, run_id, clock,
                   n_records, calls, loaded, outcome, issued, persisted>>

\* _generate_run_card from _calculate_priority_score to its return, and the
\* return of run_discovery_workflow.  _calculate_priority_score reads
\* record.model, and the AttributeError leaves both methods.
FinishRunCard(p) ==
    /\ pc[p] = "score"
    /\ IF "model" \in DiscoveryRecordFields
       THEN /\ run_dirs' = [run_dirs EXCEPT ![run_id[p]].summary = record[p].id,
                                            ![run_id[p]].metrics = record[p].id]
            /\ cards' = [cards EXCEPT ![p] = Append(@, Card(record[p], run_id[p]))]
            /\ persisted' = [persisted EXCEPT !.cards = Remember(@, cards_index)]
            /\ cards_index' = JsonDump(OpenW(cards_index),
                                       Append(cards[p], Card(record[p], run_id[p])))
            /\ outcome' = [outcome EXCEPT ![p] = "returned"]
       ELSE /\ outcome' = [outcome EXCEPT ![p] = "raised"]
            /\ UNCHANGED <<run_dirs, cards, persisted, cards_index>>
    /\ calls' = [calls EXCEPT ![p] = @ + 1]
    /\ pc' = [pc EXCEPT ![p] = "idle"]
    /\ UNCHANGED <<catalog_file, catalog, record, run_id, clock, n_records, loaded,
                   issued>>

\* the process of the instance ends (exit, uncaught exception, kill); a new
\* process may construct a pipeline on the same directories
ProcessExit(p) ==
    /\ pc[p] # "none"
    /\ pc' = [pc EXCEPT ![p] = "none"]
    /\ catalog' = [catalog EXCEPT ![p] = <<>>]
    /\ cards' = [cards EXCEPT ![p] = <<>>]
    /\ record' = [record EXCEPT ![p] = NoRecord]
    /\ run_id' = [run_id EXCEPT ![p] = NoRunId]
    /\ calls' = [calls EXCEPT ![p] = 0]
    /\ loaded' = [loaded EXCEPT ![p] = [catalog |-> 0, cards |-> 0]]
    /\ outcome' = [outcome EXCEPT ![p] = "none"]
    /\ UNCHANGED <<catalog_file, cards_index, run_dirs, clock, n_records, issued,
                   persisted>>

(***************************************************************************)
(* Coverage grid: the state after GapTargeter.__init__                     *)
(***************************************************************************)
\* no coverage_report.json in the output directory
NoReport == [state |-> "absent", cells |-> <<>>]

\* threads that share one GapTargeter
Workers == {"w1", "w2"}

\* a caller that is in no record_run call
Idle == [pc |-> "idle"]

\* every cell of _initialize_grid is a new Cell (all counters and statistics
\* zero), nothing is scheduled, nothing is recorded
GridInit ==
    /\ cells = <<>>
    /\ schedule = <<>>
    /\ run_index = 0
    /\ n_recorded = 0
    /\ successes = <<>>
    /\ seeds_used = {}
    /\ report = NoReport
    /\ workers = [w \in Workers |-> Idle]
    /\ targeted = <<>>
    /\ saved = <<>>
    /\ cache = <<>>

(***************************************************************************)
(* Health determination (DiscoveryPipeline._determine_health)              *)
(***************************************************************************)
HealthStates == {"converged", "bounded", "exploded", "invalid"}

\* the comparisons of _determine_health, left to right
determine_health_swapped(converged, stable, energy, max_force) ==
    IF converged /\ stable /\ max_force < 10 THEN "converged"
    ELSE IF Abs(energy) > 1000000000 \/ max_force > 10000 THEN "exploded"
    ELSE IF energy < 0 /\ max_force < 100 THEN "bounded"
    ELSE "invalid"

determine_health(converged, stable, energy, max_force) ==
    IF converged /\ stable /\ max_force < 10 THEN "converged"
    ELSE IF energy < 0 /\ max_force < 100 THEN "bounded"
    ELSE IF Abs(energy) > 1000000000 \/ max_force > 10000 THEN "exploded"
    ELSE "invalid"

\* energies (kcal/mol, in thousandths) on both sides of 0 and of +-1e6
Energies == {-2000000000, -1000000000, -5000, 0, 5000, 1000000000, 2000000000}
\* forces (in thousandths) on both sides of 0.01, 0.1 and 10.0
Forces == {0, 5, 10, 50, 100, 5000, 10000, 20000}

HealthArgs ==
    [fn : {"determine_health"}, converged : BOOLEAN, stable : BOOLEAN,
     energy : Energies, max_force : Forces]

HealthInit ==
    /\ CatalogInit
    /\ GridInit
    /\ args \in HealthArgs
    /\ ret = NoRet

DetermineHealth ==
    /\ ret = NoRet
    /\ ret' = [fn |-> "determine_health",
               health |-> determine_health(args.converged, args.stable,
                                           args.energy, args.max_force)]
    /\ UNCHANGED <<args, cvars, dvars, gvars>>

HealthNext == DetermineHealth

SpecHealth == HealthInit /\ [][HealthNext]_vars

\* C5: _determine_health is total and its four bands are taken in order:
\* converged if converged and stable and max_force < 0.01; else bounded if
\* energy < 0 and max_force < 0.1; else exploded if |energy| > 1e6 or
\* max_force > 10.0; else invalid.
C5_HealthBands ==
    ret.fn = "determine_health" =>
        LET isConverged == args.converged /\ args.stable /\ args.max_force < 10
            isBounded == args.energy < 0 /\ args.max_force < 100
            isExploded == \/ args.energy > 1000000000
                          \/ args.energy < -1000000000
                          \/ args.max_force > 10000
        IN /\ ret.health \in HealthStates
           /\ ret.health = "converged" <=> isConverged
           /\ ret.health = "bounded" <=> ~isConverged /\ isBounded
           /\ ret.health = "exploded" <=> ~isConverged /\ ~isBounded /\ isExploded
           /\ ret.health = "invalid" <=> ~isConverged /\ ~isBounded /\ ~isExploded

\* C5 witness: an energy below -1e6 with a force below 0.1 meets the bounded
\* and the exploded band, and is bounded
C5_BoundedBeforeExploded ==
    /\ ret.fn = "determine_health"
    /\ args.energy < -1000000000
    /\ args.max_force < 100
    /\ ~args.converged
    /\ ret.health = "bounded"

(***************************************************************************)
(* Compositions: element symbol -> count, the dict element_counts          *)
(***************************************************************************)
\* counts.get(elem, 0)
Get(counts, elem) == IF elem \in DOMAIN counts THEN counts[elem] ELSE 0

\* sum(element_counts.values())
RECURSIVE SumOver(_, _)
SumOver(counts, elems) ==
    IF elems = {} THEN 0
    ELSE LET e == CHOOSE x \in elems : TRUE
         IN counts[e] + SumOver(counts, elems \ {e})

SumValues(counts) == SumOver(counts, DOMAIN counts)

(***************************************************************************)
(* The classifier (MolecularClassifier)                                    *)
(***************************************************************************)
metals ==
    {"Li", "Be", "Na", "Mg", "Al", "K", "Ca", "Sc", "Ti", "V", "Cr",
     "Mn", "Fe", "Co", "Ni", "Cu", "Zn", "Ga", "Rb", "Sr", "Y", "Zr",
     "Nb", "Mo", "Tc", "Ru", "Rh", "Pd", "Ag", "Cd", "In", "Sn", "Sb",
     "Cs", "Ba", "La", "Hf", "Ta", "W", "Re", "Os", "Ir", "Pt", "Au",
     "Hg", "Tl", "Pb", "Bi", "Fr", "Ra", "Ac"}

semiconductor_elements == {"Si", "Ge", "Ga", "As", "In", "Sb", "Te"}

superalloy_metals == {"Ni", "Co", "Cr", "W", "Mo", "Re", "Ta", "Nb", "Ti", "Al"}

acid_elements == {"S", "P", "N", "Cl", "Br", "I"}

\* a detector's "return None"
None == [label |-> "None", confidence |-> 0, bonus |-> 0]

\* Classification(label, confidence, bonus, reason); the free-text reason is
\* left out
Classification(label, confidence, bonus) ==
    [label |-> label, confidence |-> confidence, bonus |-> bonus]

\* a slip of _detect_organometallic: the unused has_hydrogen taken into the test
detect_organometallic_with_hydrogen(elements, counts) ==
    IF "C" \in elements /\ "H" \in elements /\ (elements \cap metals) # {}
    THEN Classification("organometallic", 1000, 1000)
    ELSE None

detect_organometallic(elements, counts) ==
    LET has_carbon == "C" \in elements
        has_metal == (elements \cap metals) # {}
    IN IF has_carbon /\ has_metal
       THEN Classification("organometallic", 1000, 1000)
       ELSE None

detect_perfluorinated(counts) ==
    LET F_count == Get(counts, "F")
    IN IF F_count >= 6
       THEN Classification("perfluorinated", 1000, 800)
       ELSE None

detect_semiconductor(elements, counts) ==
    LET semi_present == elements \cap semiconductor_elements
    IN IF semi_present # {}
       THEN IF \/ ("Ga" \in elements /\ "As" \in elements)
               \/ ("In" \in elements /\ "P" \in elements)
               \/ ("Cd" \in elements /\ "Te" \in elements)
            THEN Classification("semiconductor", 1000, 700)
            ELSE IF "Si" \in elements \/ "Ge" \in elements
                 THEN Classification("semiconductor", 900, 700)
                 ELSE None
       ELSE None

detect_superalloy(elements, counts) ==
    LET metals_present == elements \cap metals
        superalloy_present == elements \cap superalloy_metals
    IN IF Cardinality(metals_present) >= 3 /\ Cardinality(superalloy_present) >= 2
       THEN Classification("metallic_superalloy", 800, 600)
       ELSE None

detect_super_acid(elements, counts) ==
    LET has_carbon == "C" \in elements
        has_hydrogen == "H" \in elements
        acid_present == elements \cap acid_elements
    IN IF has_carbon /\ has_hydrogen /\ acid_present # {}
       THEN IF "F" \in elements \/ "S" \in elements
            THEN Classification("organic_super_acid", 700, 500)
            ELSE None
       ELSE None

detect_super_base(elements, counts) ==
    LET has_carbon == "C" \in elements
        has_nitrogen == "N" \in elements
        has_metal == (elements \cap metals) # {}
        N_count == Get(counts, "N")
    IN IF has_carbon /\ has_nitrogen
       THEN IF N_count >= 2 \/ has_metal
            THEN Classification("organic_super_base", 700, 500)
            ELSE None
       ELSE None

\* detect_explosive without the bounds on N_O_ratio
detect_explosive_any_ratio(elements, counts) ==
    IF Get(counts, "N") >= 3 /\ Get(counts, "O") >= 3
    THEN Classification("explosive", 600, 300)
    ELSE IF "Cl" \in elements /\ Get(counts, "O") >= 4
         THEN Classification("explosive", 500, 300)
         ELSE None

\* N_O_ratio = N_count / max(1, O_count) against 0.3 and 1.5, in tenths
detect_explosive(elements, counts) ==
    LET N_count == Get(counts, "N")
        O_count == Get(counts, "O")
    IN IF /\ N_count >= 3 /\ O_count >= 3
          /\ 3 * Max(1, O_count) <= 10 * N_count
          /\ 10 * N_count <= 15 * Max(1, O_count)
       THEN Classification("explosive", 600, 300)
       ELSE IF "Cl" \in elements /\ O_count >= 4
            THEN Classification("explosive", 500, 300)
            ELSE None

\* "if x: classifications.append(x)"
AppendIf(list, x) == IF x # None THEN Append(list, x) ELSE list

\* list.sort(key=lambda c: c.bonus, reverse=True): stable, so entries of equal
\* bonus keep their order
RECURSIVE InsertByBonus(_, _)
InsertByBonus(sorted, c) ==
    IF sorted = <<>> THEN <<c>>
    ELSE LET last == sorted[Len(sorted)]
         IN IF last.bonus >= c.bonus
            THEN Append(sorted, c)
            ELSE Append(InsertByBonus(SubSeq(sorted, 1, Len(sorted) - 1), c), last)

RECURSIVE SortByBonusFrom(_, _)
SortByBonusFrom(sorted, rest) ==
    IF rest = <<>> THEN sorted
    ELSE SortByBonusFrom(InsertByBonus(sorted, Head(rest)), Tail(rest))

SortByBonus(list) == SortByBonusFrom(<<>>, list)

\* the seven detectors in the order classify calls them
Detections(element_counts) ==
    LET elements == DOMAIN element_counts
    IN << detect_organometallic(elements, element_counts),
          detect_perfluorinated(element_counts),
          detect_semiconductor(elements, element_counts),
          detect_superalloy(elements, element_counts),
          detect_super_acid(elements, element_counts),
          detect_super_base(elements, element_counts),
          detect_explosive(elements, element_counts) >>

RECURSIVE AppendAll(_, _)
AppendAll(list, found) ==
    IF found = <<>> THEN list
    ELSE AppendAll(AppendIf(list, Head(found)), Tail(found))

\* a slip of classify: an if/elif chain, where the first detection ends the search
RECURSIVE FirstFound(_)
FirstFound(found) ==
    IF found = <<>> THEN <<>>
    ELSE IF Head(found) # None THEN <<Head(found)>> ELSE FirstFound(Tail(found))

classify_first_match(element_counts) == FirstFound(Detections(element_counts))

\* MolecularClassifier.classify and classify_molecule
classify(element_counts) ==
    SortByBonus(AppendAll(<<>>, Detections(element_counts)))

\* the elements the model draws compositions from
Elements ==
    {"C", "H", "N", "O", "F", "S", "Cl", "Fe", "Ni", "Cr", "Si", "Sn", "Ga", "As"}

\* the count of an element present in a composition: 1, but for N, O and F
CompositionOf(present, nN, nO, nF) ==
    [e \in present |-> CASE e = "N" -> nN
                         [] e = "O" -> nO
                         [] e = "F" -> nF
                         [] OTHER -> 1]

\* the test cases of classification.py
Ferrocene == [e \in {"C", "H", "Fe"} |-> CASE e = "Fe" -> 1 [] OTHER -> 10]
Grignard == [e \in {"C", "H", "Mg", "Br"} |->
                CASE e = "C" -> 4 [] e = "H" -> 9 [] OTHER -> 1]
Perfluorooctane == [e \in {"C", "F"} |-> CASE e = "C" -> 8 [] OTHER -> 18]
Inconel == [e \in {"Ni", "Cr", "Fe"} |-> CASE e = "Ni" -> 60 [] OTHER -> 20]
TriflicAcid == [e \in {"C", "H", "F", "S", "O"} |->
                   CASE e = "F" -> 3 [] e = "O" -> 3 [] OTHER -> 1]
TNT == [e \in {"C", "H", "N", "O"} |->
           CASE e = "C" -> 7 [] e = "H" -> 5 [] e = "N" -> 3 [] OTHER -> 6]
Water == [e \in {"H", "O"} |-> CASE e = "H" -> 2 [] OTHER -> 1]

TestCases == {Ferrocene, Grignard, Perfluorooctane, Inconel, TriflicAcid, TNT, Water}

\* every set of the elements with N, O and F absent (count 0) or in several
\* counts, on both sides of the thresholds of the rules
Compositions ==
    {CompositionOf(others \cup {e \in {"N"} : nN > 0} \cup {e \in {"O"} : nO > 0}
                          \cup {e \in {"F"} : nF > 0}, nN, nO, nF) :
        others \in SUBSET (Elements \ {"N", "O", "F"}), nN \in {0, 1, 2, 3, 5},
        nO \in {0, 1, 3, 4, 10, 11}, nF \in {0, 1, 6}} \cup TestCases

ClassifyInit ==
    /\ CatalogInit
    /\ GridInit
    /\ args \in [fn : {"classify"}, element_counts : Compositions]
    /\ ret = NoRet

Classify ==
    /\ ret = NoRet
    /\ ret' = [fn |-> "classify", classifications |-> classify(args.element_counts)]
    /\ UNCHANGED <<args, cvars, dvars, gvars>>

ClassifyNext == Classify

SpecClassify == ClassifyInit /\ [][ClassifyNext]_vars

\* the labels of the seven rules, in their priority order
RuleLabels ==
    << "organometallic", "perfluorinated", "semiconductor", "metallic_superalloy",
       "organic_super_acid", "organic_super_base", "explosive" >>

RuleOf(label) == CHOOSE r \in DOMAIN RuleLabels : RuleLabels[r] = label

\* C9: classify evaluates the seven rules independently: a rule that matches
\* contributes its one Classification, a rule that does not contributes none,
\* and the list is sorted by bonus descending, entries of equal bonus in the
\* rule priority order.
C9_AllRulesFireSorted ==
    ret.fn = "classify" =>
        LET L == ret.classifications
            D == Detections(args.element_counts)
        IN /\ \A r \in DOMAIN RuleLabels :
                 /\ Cardinality({i \in DOMAIN L : L[i].label = RuleLabels[r]})
                       = IF D[r] # None THEN 1 ELSE 0
                 /\ D[r] # None => D[r].label = RuleLabels[r] /\ D[r] \in Range(L)
           /\ \A i \in DOMAIN L : L[i].label \in Range(RuleLabels)
           /\ \A i \in DOMAIN L, j \in DOMAIN L :
                 i < j => \/ L[i].bonus > L[j].bonus
                          \/ /\ L[i].bonus = L[j].bonus
                             /\ RuleOf(L[i].label) < RuleOf(L[j].label)

\* C9 witness: three rules match, two of them with the same bonus
C9_ThreeRulesWithTie ==
    /\ ret.fn = "classify"
    /\ Len(ret.classifications) >= 3
    /\ \E i \in DOMAIN ret.classifications, j \in DOMAIN ret.classifications :
          /\ i < j
          /\ ret.classifications[i].label = "organic_super_acid"
          /\ ret.classifications[j].label = "organic_super_base"

\* C10: a composition with carbon and an element of the metal set gets an
\* organometallic classification of bonus 1.0 and confidence 1.0; a
\* composition that matches no rule, such as {H: 2, O: 1}, gets the empty list.
C10_Organometallic ==
    ret.fn = "classify" =>
        LET elements == DOMAIN args.element_counts
            L == ret.classifications
        IN /\ ("C" \in elements /\ elements \cap metals # {}) =>
                 \E i \in DOMAIN L :
                    L[i] = [label |-> "organometallic", confidence |-> 1000,
                            bonus |-> 1000]
           /\ args.element_counts = Water => L = <<>>
           /\ (\A r \in DOMAIN RuleLabels : Detections(args.element_counts)[r] = None)
                 => L = <<>>

\* C10 witness: ferrocene has been classified, organometallic among its classes
C10_FerroceneClassified ==
    /\ ret.fn = "classify"
    /\ args.element_counts = Ferrocene
    /\ \E i \in DOMAIN ret.classifications :
          ret.classifications[i].label = "organometallic"

\* the entries of a classification list that carry a label
WithLabel(L, label) == {i \in DOMAIN L : L[i].label = label}

\* C11: a composition is classified organic_super_acid, with bonus 0.5 and
\* confidence 0.7, exactly when it contains C and H and at least one of S, P,
\* N or a halogen (F, Cl, Br, I) and, in addition, F or S.
C11_SuperAcidIffAcidFormer ==
    ret.fn = "classify" =>
        LET elements == DOMAIN args.element_counts
            L == ret.classifications
        IN /\ (WithLabel(L, "organic_super_acid") # {})
                 <=> /\ "C" \in elements /\ "H" \in elements
                     /\ elements \cap {"S", "P", "N", "F", "Cl", "Br", "I"} # {}
                     /\ ("F" \in elements \/ "S" \in elements)
           /\ \A i \in WithLabel(L, "organic_super_acid") :
                 L[i].bonus = 500 /\ L[i].confidence = 700

\* C12: a composition is classified explosive, with bonus 0.3, exactly when
\* N >= 3 and O >= 3 and 0.3 <= N/O <= 1.5, or Cl is present and O >= 4;
\* {C: 7, H: 5, N: 3, O: 6} is classified explosive.
C12_ExplosiveIffNitroOrPerchlorate ==
    ret.fn = "classify" =>
        LET elements == DOMAIN args.element_counts
            L == ret.classifications
            N == Get(args.element_counts, "N")
            O == Get(args.element_counts, "O")
        IN /\ (WithLabel(L, "explosive") # {})
                 <=> \/ N >= 3 /\ O >= 3 /\ 3 * O <= 10 * N /\ 10 * N <= 15 * O
                     \/ "Cl" \in elements /\ O >= 4
           /\ \A i \in WithLabel(L, "explosive") : L[i].bonus = 300
           /\ args.element_counts = TNT => WithLabel(L, "explosive") # {}

\* C12 witness: TNT has been classified, explosive among its classes
C12_TNTExplosive ==
    /\ ret.fn = "classify"
    /\ WithLabel(ret.classifications, "explosive") # {}
    /\ args.element_counts = TNT

(***************************************************************************)
(* The scorer (MolecularScorer), in thousandths                            *)
(***************************************************************************)
\* a * b and a / b on thousandths
Mul(a, b) == (a * b) \div 1000
Div(a, b) == (a * 1000) \div b

\* math.exp(-x) for x >= 0: e^-1 = 0.368 per whole unit, and the series
\* 1 - x + x^2/2! - ... + x^8/8! below 1
RECURSIVE ExpNeg(_)
ExpNeg(x) ==
    IF x >= 20000 THEN 0
    ELSE IF x >= 1000 THEN (ExpNeg(x - 1000) * 368) \div 1000
    ELSE LET t2 == (x * x) \div 2000
             t3 == (t2 * x) \div 3000
             t4 == (t3 * x) \div 4000
             t5 == (t4 * x) \div 5000
             t6 == (t5 * x) \div 6000
             t7 == (t6 * x) \div 7000
             t8 == (t7 * x) \div 8000
         IN 1000 - x + t2 - t3 + t4 - t5 + t6 - t7 + t8

\* math.log(m) for m >= 1: ln 2 = 0.693 per halving, and the series
\* 2 (y + y^3/3 + y^5/5), y = (m - 1)/(m + 1), below 2
RECURSIVE Ln(_)
Ln(m) ==
    IF m >= 2000 THEN 693 + Ln(m \div 2)
    ELSE LET y == ((m - 1000) * 1000) \div (m + 1000)
             y3 == Mul(Mul(y, y), y)
             y5 == Mul(Mul(y3, y), y)
         IN 2 * (y + y3 \div 3 + y5 \div 5)

\* the integer square root, by Newton's iteration
RECURSIVE Newton(_, _)
Newton(n, x) ==
    LET y == (x + n \div x) \div 2
    IN IF y >= x THEN x ELSE Newton(n, y)

ISqrt(n) == IF n = 0 THEN 0 ELSE Newton(n, n)

\* N ** 1.5 = N * sqrt(N)
Pow15(N) == N * ISqrt(N * 1000000)

\* the defaults of MolecularScorer.__init__
mu1 == 8
mu2 == 56
sigma1 == 3
sigma2 == 12
a == 1000
b == 800
k_charge == 2
alpha_metal == 300
beta_diversity == 500
\* lambda_cost = 0.01, as the divisor 1 / 0.01
lambda_cost_inverse == 100
use_classification == TRUE

\* the local metal_symbols of compute_wM
metal_symbols ==
    {"Li", "Be", "Na", "Mg", "Al", "K", "Ca", "Sc", "Ti",
     "V", "Cr", "Mn", "Fe", "Co", "Ni", "Cu", "Zn", "Ga",
     "Rb", "Sr", "Y", "Zr", "Nb", "Mo", "Tc", "Ru", "Rh",
     "Pd", "Ag", "Cd", "In", "Cs", "Ba", "La", "Hf", "Ta",
     "W", "Re", "Os", "Ir", "Pt", "Au", "Hg", "Tl", "Fr",
     "Ra", "Ac"}

compute_wN(N) ==
    LET term1 == Mul(a, ExpNeg((((N - mu1) * (N - mu1)) * 1000) \div (2 * sigma1 * sigma1)))
        term2 == Mul(b, ExpNeg((((N - mu2) * (N - mu2)) * 1000) \div (2 * sigma2 * sigma2)))
    IN term1 + term2

compute_wQ(total_charge) == ExpNeg(k_charge * Abs(total_charge))

compute_wM(element_counts) ==
    LET N_total == SumValues(element_counts)
        N_metal == SumOver(element_counts, DOMAIN element_counts \cap metal_symbols)
    IN IF N_total = 0 THEN 1000
       ELSE 1000 + (alpha_metal * N_metal) \div N_total

compute_wD(element_counts) ==
    LET N == SumValues(element_counts)
        unique == Cardinality(DOMAIN element_counts)
    IN IF N <= 1 THEN 1000
       ELSE 1000 + (beta_diversity * unique * 1000) \div Ln((1 + N) * 1000)

RECURSIVE SumBonus(_)
SumBonus(classifications) ==
    IF classifications = <<>> THEN 0
    ELSE Head(classifications).bonus + SumBonus(Tail(classifications))

\* (w_C, labels)
compute_wC(element_counts) ==
    IF ~use_classification THEN [wC |-> 1000, labels |-> <<>>]
    ELSE LET classifications == classify(element_counts)
         IN IF classifications = <<>> THEN [wC |-> 1000, labels |-> <<>>]
            ELSE [wC |-> 1000 + SumBonus(classifications),
                  labels |-> [i \in DOMAIN classifications |-> classifications[i].label]]

\* a slip of compute_wS: the flags win over the health
compute_wS_flags_only(health, converged, bounded) ==
    IF bounded /\ converged THEN 1000
    ELSE IF bounded THEN 300
    ELSE 50

compute_wS(health, converged, bounded) ==
    IF health = "converged" \/ (bounded /\ converged) THEN 1000
    ELSE IF health = "bounded" \/ bounded THEN 300
    ELSE 50

\* raw_cost / 2000 ** 1.5, and 2000 ** 1.5 = 89442.7
compute_cost(N, has_long_range) ==
    IF has_long_range
    THEN (N * N * 10000) \div 894427
    ELSE (Pow15(N) * 10) \div 894427

\* a slip of the normalisation: the cap left out
normalize_uncapped(S) == S * 50

\* S_normalized = min(100.0, S * 50.0)
normalize(S) == Min(100000, S * 50)

\* MolecularScorer.score: no statement of it raises, so error is FALSE
score(N, element_counts, total_charge, health, converged, bounded, has_long_range) ==
    LET wN == compute_wN(N)
        wQ == compute_wQ(total_charge)
        wM == compute_wM(element_counts)
        wD == compute_wD(element_counts)
        c == compute_wC(element_counts)
        wS == compute_wS(health, converged, bounded)
        V == Mul(Mul(Mul(Mul(Mul(wN, wQ), wM), wD), c.wC), wS)
        C == compute_cost(N, has_long_range)
        S == Div(V, 1000 + C \div lambda_cost_inverse)
    IN [error |-> FALSE, wN |-> wN, wQ |-> wQ, wM |-> wM, wD |-> wD, wS |-> wS,
        wC |-> c.wC, cost |-> C, value |-> V, priority |-> normalize(S),
        classifications |-> c.labels]

\* score_molecule: (breakdown.priority, breakdown_dict)
score_molecule(N, element_counts, total_charge, health, converged, bounded, has_long_range) ==
    LET breakdown == score(N, element_counts, total_charge, health, converged,
                           bounded, has_long_range)
    IN [error |-> breakdown.error, priority |-> breakdown.priority,
        breakdown |-> breakdown]

\* the elements the model draws the scored compositions from
ScoreElements == {"C", "H", "N", "O", "Fe", "Sn"}

\* the test cases of scoring.py
SmallOrganic == [e \in {"H", "O", "C"} |-> CASE e = "H" -> 2 [] e = "O" -> 1 [] OTHER -> 5]
NaClBulk == [e \in {"Na", "Cl"} |-> 28]
Al2O3Cluster == [e \in {"Al", "O"} |-> CASE e = "Al" -> 80 [] OTHER -> 40]
Ar3Cluster == [e \in {"Ar"} |-> 3]
IronBulk == [e \in {"Fe"} |-> 200]
\* a composition of no atoms that is not the empty dict
ZeroHydrogen == [e \in {"H"} |-> 0]

ScoreCompositions ==
    {CompositionOf(present, nN, nO, 1) :
        present \in SUBSET ScoreElements, nN \in {1, 3}, nO \in {1, 6}}
    \cup TestCases
    \cup {SmallOrganic, NaClBulk, Al2O3Cluster, Ar3Cluster, IronBulk, ZeroHydrogen}

\* total charges, in thousandths
Charges == {0, 500, -1000}

\* the four health states and a string that is none of them
HealthValues == HealthStates \cup {"unknown"}

ScoreInit ==
    /\ CatalogInit
    /\ GridInit
    /\ \E element_counts \in ScoreCompositions :
         args \in [fn : {"score_molecule"}, N : {SumValues(element_counts)},
                   element_counts : {element_counts}, total_charge : Charges,
                   health : HealthValues, converged : BOOLEAN, bounded : BOOLEAN,
                   has_long_range : BOOLEAN]
    /\ ret = NoRet

Score ==
    /\ ret = NoRet
    /\ ret' = [fn |-> "score_molecule"] @@
              score_molecule(args.N, args.element_counts, args.total_charge,
                             args.health, args.converged, args.bounded,
                             args.has_long_range)
    /\ UNCHANGED <<args, cvars, dvars, gvars>>

ScoreNext == Score

SpecScore == ScoreInit /\ [][ScoreNext]_vars

\* C6: for a composition of no atoms (N = 0, the empty composition included)
\* the scorer raises an error and returns no priority.
C6_NoAtomsRejected ==
    (ret.fn = "score_molecule" /\ args.N = 0) => ret.error

\* C7: for a composition of at least one atom, whatever the charge, the health
\* and the flags, the priority lies in [0, 100].
C7_PriorityInRange ==
    (ret.fn = "score_molecule" /\ args.N >= 1) =>
        /\ ~ret.error
        /\ ret.priority >= 0
        /\ ret.priority <= 100000

\* C7 witness: a value whose fifty-fold exceeds 100 has been capped at 100
C7_PriorityCapped ==
    /\ ret.fn = "score_molecule"
    /\ args.N >= 1
    /\ ret.breakdown.value * 50 > 100000
    /\ ret.priority = 100000

\* C8: the stability gate is 1.0 when health is converged or bounded and
\* converged are both true, else 0.3 when health is bounded or bounded is
\* true, else 0.05; a health that is none of the four states counts as invalid.
C8_StabilityGate ==
    ret.fn = "score_molecule" =>
        LET health == IF args.health \in HealthStates THEN args.health ELSE "invalid"
        IN ret.breakdown.wS =
              IF health = "converged" \/ (args.bounded /\ args.converged) THEN 1000
              ELSE IF health = "bounded" \/ args.bounded THEN 300
              ELSE 50

\* C8 witness: a health outside the four states, gated by the flags alone
C8_UnknownHealthGated ==
    /\ ret.fn = "score_molecule"
    /\ args.health \notin HealthStates
    /\ args.bounded
    /\ ~args.converged
    /\ ret.breakdown.wS = 300

(***************************************************************************)
(* Run cards: formula, domain, size and tags                               *)
(* (DiscoveryPipeline.parse_xyz_file, _infer_domain, _generate_run_card,   *)
(*  MoleculeValidator.validate_molecule)                                   *)
(***************************************************************************)
\* a string is a sequence of one-character strings
SymbolChars ==
    [e \in {"Al", "Ar", "Br", "C", "Cl", "Cr", "F", "Fe", "H", "He", "Mg", "N",
            "Na", "Ni", "O", "S"} |->
        CASE e = "Al" -> <<"A", "l">> [] e = "Ar" -> <<"A", "r">>
          [] e = "Br" -> <<"B", "r">> [] e = "C" -> <<"C">>
          [] e = "Cl" -> <<"C", "l">> [] e = "Cr" -> <<"C", "r">>
          [] e = "F" -> <<"F">> [] e = "Fe" -> <<"F", "e">>
          [] e = "H" -> <<"H">> [] e = "He" -> <<"H", "e">>
          [] e = "Mg" -> <<"M", "g">> [] e = "N" -> <<"N">>
          [] e = "Na" -> <<"N", "a">> [] e = "Ni" -> <<"N", "i">>
          [] e = "O" -> <<"O">> [] e = "S" -> <<"S">>]

\* sorted(element_counts.keys()): these symbols in the order of str.__lt__
SortedSymbols ==
    << "Al", "Ar", "Br", "C", "Cl", "Cr", "F", "Fe", "H", "He", "Mg", "N", "Na",
       "Ni", "O", "S" >>

DigitChars == << "0", "1", "2", "3", "4", "5", "6", "7", "8", "9" >>

\* f"{count}" of a non-negative int
RECURSIVE FormatInt(_)
FormatInt(n) ==
    IF n < 10 THEN << DigitChars[n + 1] >>
    ELSE FormatInt(n \div 10) \o << DigitChars[(n % 10) + 1] >>

\* parse_xyz_file: the formula, elements sorted, the count left out when 1
RECURSIVE FormulaFrom(_, _)
FormulaFrom(element_counts, i) ==
    IF i > Len(SortedSymbols) THEN <<>>
    ELSE LET element == SortedSymbols[i]
             part == IF element \notin DOMAIN element_counts THEN <<>>
                     ELSE IF element_counts[element] = 1 THEN SymbolChars[element]
                     ELSE SymbolChars[element] \o FormatInt(element_counts[element])
         IN part \o FormulaFrom(element_counts, i + 1)

formula_of(element_counts) == FormulaFrom(element_counts, 1)

\* str.startswith
startswith(s, prefix) == IsPrefix(prefix, s)

infer_domain(formula, num_atoms) ==
    IF num_atoms = 1 THEN "@molecule"
    ELSE IF num_atoms <= 10
         THEN IF startswith(formula, <<"A", "r">>) \/ startswith(formula, <<"H", "e">>)
              THEN "@cluster" ELSE "@molecule"
    ELSE IF num_atoms <= 100 THEN "@gas"
    ELSE "@bulk"

\* parse_simulation_output: the stable flag of the output, set also when
\* max_force < 0.01 and energy < 0
infer_stable(stable_line, energy, max_force) ==
    stable_line \/ (max_force < 10 /\ energy < 0)

\* validate_molecule: is_known = len(matches) > 0; novel only when unknown and
\* the stability is "stable"
validate_molecule(is_known, stability) ==
    [is_known |-> is_known,
     novel |-> IF ~is_known THEN stability = "stable" ELSE FALSE]

\* _generate_run_card: tags = []; four appends
generate_tags(stable, is_novel, card_score, health) ==
    LET t1 == IF stable THEN <<"stable">> ELSE <<>>
        t2 == IF is_novel THEN Append(t1, "novel") ELSE t1
        t3 == IF card_score > 80000 THEN Append(t2, "high_priority") ELSE t2
    IN IF health = "converged" THEN Append(t3, "converged") ELSE t3

\* run_discovery_workflow, steps 1 to 4: the record of a structure file, of the
\* simulation output and of the database lookup
discovery_record(element_counts, converged, stable_line, energy, max_force, is_known) ==
    LET stable == infer_stable(stable_line, energy, max_force)
        validation == validate_molecule(is_known, IF stable THEN "stable" ELSE "unstable")
    IN [formula |-> formula_of(element_counts), energy |-> energy,
        max_force |-> max_force, converged |-> converged, stable |-> stable,
        is_novel |-> validation.novel]

\* _generate_run_card from "Infer domain" to RunCard(...): the card of a record
\* and of the score, had _calculate_priority_score returned one
run_card(rec, card_score) ==
    LET domain == infer_domain(rec.formula, Len(rec.formula))
        health == determine_health(rec.converged, rec.stable, rec.energy, rec.max_force)
    IN [formula |-> rec.formula, domain |-> domain, size |-> Len(rec.formula),
        score |-> card_score, health |-> health,
        tags |-> generate_tags(rec.stable, rec.is_novel, card_score, health)]

\* _calculate_priority_score: the health of the record and the call of the
\* scorer with the parsed flags of the record (total_charge = 0.0). The
\* statement before the call reads record.model, which is no field of
\* DiscoveryRecord, so the method raises; the call is given as it is written,
\* with has_long_range FALSE as for a model that is neither of the two named.
calculate_priority_score(rec, element_counts) ==
    LET health == determine_health(rec.converged, rec.stable, rec.energy, rec.max_force)
        scored == score_molecule(SumValues(element_counts), element_counts, 0, health,
                                 rec.converged, rec.stable, FALSE)
    IN [raises |-> TRUE, health |-> health, priority |-> scored.priority,
        breakdown |-> scored.breakdown]

ArgonAtom == [e \in {"Ar"} |-> 1]
HydrogenAtom == [e \in {"H"} |-> 1]
HeliumDimer == [e \in {"He"} |-> 2]
HeliumDroplet == [e \in {"He"} |-> 12]

CardCompositions ==
    TestCases \cup {SmallOrganic, NaClBulk, Al2O3Cluster, Ar3Cluster, IronBulk,
                    ArgonAtom, HydrogenAtom, HeliumDimer, HeliumDroplet}

\* scores (in thousandths) on both sides of 80
CardScores == {0, 80000, 80001, 100000}

CardInit ==
    /\ CatalogInit
    /\ GridInit
    /\ args \in [fn : {"generate_run_card"}, element_counts : CardCompositions,
                 converged : BOOLEAN, stable_line : BOOLEAN, energy : Energies,
                 max_force : Forces, is_known : BOOLEAN, score : CardScores]
    /\ ret = NoRet

GenerateRunCard ==
    /\ ret = NoRet
    /\ ret' = [fn |-> "generate_run_card",
               card |-> run_card(discovery_record(args.element_counts, args.converged,
                                                  args.stable_line, args.energy,
                                                  args.max_force, args.is_known),
                                 args.score)]
    /\ UNCHANGED <<args, cvars, dvars, gvars>>

CalculatePriorityScore ==
    /\ ret = NoRet
    /\ ret' = [fn |-> "calculate_priority_score"] @@
              calculate_priority_score(
                  discovery_record(args.element_counts, args.converged, args.stable_line,
                                   args.energy, args.max_force, args.is_known),
                  args.element_counts)
    /\ UNCHANGED <<args, cvars, dvars, gvars>>

CardNext == GenerateRunCard \/ CalculatePriorityScore

SpecCard == CardInit /\ [][CardNext]_vars

\* the domain of N atoms, the formula noble-gas dominated or not
DomainOfAtomCount(N, noble) ==
    IF N = 1 THEN "@molecule"
    ELSE IF N <= 10 THEN (IF noble THEN "@cluster" ELSE "@molecule")
    ELSE IF N <= 100 THEN "@gas"
    ELSE "@bulk"

\* C13: the domain of a run card is a function of the atom count N of the
\* composition (@molecule for N = 1; for 2 <= N <= 10 @cluster if the formula
\* is noble-gas dominated, else @molecule; for 11 <= N <= 100 @gas; for
\* N > 100 @bulk), and the size field of the card is N.
C13_DomainFromAtomCount ==
    ret.fn = "generate_run_card" =>
        LET N == SumValues(args.element_counts)
            noble == DOMAIN args.element_counts \subseteq {"Ar", "He"}
        IN /\ ret.card.domain = DomainOfAtomCount(N, noble)
           /\ ret.card.size = N

\* C14: the tags of a run card are stable iff the outcome is marked stable,
\* novel iff the database lookup found no match, high_priority iff
\* score > 80, converged iff the health is converged, and no other tag.
C14_TagsFromFields ==
    ret.fn = "generate_run_card" =>
        LET tags == Range(ret.card.tags)
            stable == infer_stable(args.stable_line, args.energy, args.max_force)
        IN /\ "stable" \in tags <=> stable
           /\ "novel" \in tags <=> ~args.is_known
           /\ "high_priority" \in tags <=> ret.card.score > 80000
           /\ "converged" \in tags <=> ret.card.health = "converged"
           /\ tags \subseteq {"stable", "novel", "high_priority", "converged"}

(***************************************************************************)
(* Coverage grid (tools/gap_targeter.py)                                   *)
(*                                                                         *)
(* Energies are whole numbers of kcal/mol and the statistics of a cell are *)
(* exact fractions <<numerator, denominator>>.  std_energy and             *)
(* max_mismatch are square roots: each is carried as its square            *)
(* (std_energy_sq, max_mismatch_sq), and compared through its square.      *)
(* Temperatures are in K, densities in thousandths of g/cm^3.              *)
(***************************************************************************)
\* total number of direct record_run calls
MaxRuns == 6
\* total number of configs executed
MaxExecuted == 4
\* the largest --fill N below the size of the grid
MaxFill == 2
\* the grid of the model is the corner of the grid of GapTargeter that the
\* first bins of each axis span
NumScaleBins == 2
NumTempBins == 2
NumDensityBins == 1

RECURSIVE GCD(_, _)
GCD(x, y) == IF y = 0 THEN x ELSE GCD(y, x % y)

\* the fraction n/d, d # 0, in lowest terms with a positive denominator
Frac(n, d) ==
    LET g == GCD(Abs(n), Abs(d))
        sgn == IF d < 0 THEN -1 ELSE 1
    IN << sgn * (n \div g), sgn * (d \div g) >>

Zero == << 0, 1 >>
FromInt(n) == << n, 1 >>
FAdd(x, y) == Frac(x[1] * y[2] + y[1] * x[2], x[2] * y[2])
FSub(x, y) == Frac(x[1] * y[2] - y[1] * x[2], x[2] * y[2])
FMul(x, y) == Frac(x[1] * y[1], x[2] * y[2])
FDiv(x, y) == Frac(x[1] * y[2], x[2] * y[1])
FLess(x, y) == x[1] * y[2] < y[1] * x[2]
FMax(S) == CHOOSE m \in S : \A x \in S : ~FLess(m, x)

\* GapTargeter.__init__: the bins of the three axes, [2, 5, 10, 20, 50, 100],
\* np.linspace(50, 500, 10) and np.linspace(0.001, 0.1, 10), each cut to the
\* bins of the model
scale_bins == SubSeq(<< 2, 5, 10, 20, 50, 100 >>, 1, NumScaleBins)
temp_bins ==
    SubSeq(<< 50, 100, 150, 200, 250, 300, 350, 400, 450, 500 >>, 1, NumTempBins)
density_bins ==
    SubSeq(<< 1, 12, 23, 34, 45, 56, 67, 78, 89, 100 >>, 1, NumDensityBins)

\* _initialize_grid: the keys (i, j, k) of self.cells
Keys ==
    (0..(Len(scale_bins) - 1)) \X (0..(Len(temp_bins) - 1))
        \X (0..(Len(density_bins) - 1))

\* the keys in the order _initialize_grid inserts them, which is the order
\* in which self.cells.items() and self.cells.values() give them
KeyOrder ==
    LET nj == Len(temp_bins)
        nk == Len(density_bins)
    IN [n \in 1..(Len(scale_bins) * nj * nk) |->
           << (n - 1) \div (nj * nk), ((n - 1) \div nk) % nj, (n - 1) % nk >>]

\* Cell(scale, temp, density) with the defaults of the dataclass
NewCell(key) ==
    [scale |-> scale_bins[key[1] + 1], temp |-> temp_bins[key[2] + 1],
     density |-> density_bins[key[3] + 1], n_runs |-> 0, n_success |-> 0,
     n_failures |-> 0, mean_energy |-> Zero, std_energy_sq |-> Zero,
     max_mismatch_sq |-> Zero]

\* self.cells[key]
CellAt(cs, key) == IF key \in DOMAIN cs THEN cs[key] ELSE NewCell(key)

\* self.cells[key] = cell
SetCell(cs, key, cell) ==
    [k \in DOMAIN cs \cup {key} |-> IF k = key THEN cell ELSE cs[k]]

\* Cell.is_high_mismatch: max_mismatch > threshold, both sides squared when
\* the threshold is not negative
is_high_mismatch(cell, threshold) ==
    IF threshold[1] < 0 THEN TRUE
    ELSE FLess(FMul(threshold, threshold), cell.max_mismatch_sq)

\* np.argmin([abs(b - x) for b in bins]): the first index of the least distance
ArgMin(bins, x) ==
    CHOOSE i \in 0..(Len(bins) - 1) :
        /\ \A j \in 0..(Len(bins) - 1) : Abs(bins[i + 1] - x) <= Abs(bins[j + 1] - x)
        /\ \A j \in 0..(i - 1) : Abs(bins[j + 1] - x) > Abs(bins[i + 1] - x)

get_cell_key(scale, temp, density) ==
    << ArgMin(scale_bins, scale), ArgMin(temp_bins, temp),
       ArgMin(density_bins, density) >>

\* the running update of mean_energy and std_energy for the n-th value
UpdateStatistics(cell, n, energy) ==
    LET old_mean == cell.mean_energy
        new_mean == FAdd(old_mean, FDiv(FSub(energy, old_mean), FromInt(n)))
        new_sq == FDiv(FAdd(FMul(cell.std_energy_sq, FromInt(n - 1)),
                            FMul(FSub(energy, old_mean), FSub(energy, new_mean))),
                       FromInt(n))
    IN [cell EXCEPT !.mean_energy = new_mean, !.std_energy_sq = new_sq]

\* record_run taking the statistics over all runs of the cell
record_run_over_all_runs(cs, scale, temp, density, success, energy) ==
    LET key == get_cell_key(scale, temp, density)
        cell == CellAt(cs, key)
        counted == [cell EXCEPT !.n_runs = @ + 1,
                                !.n_success = IF success THEN @ + 1 ELSE @,
                                !.n_failures = IF success THEN @ ELSE @ + 1]
    IN SetCell(cs, key, UpdateStatistics(counted, counted.n_runs, FromInt(energy)))

\* record_run with the divisor n_runs in place of n_success
record_run_divide_by_runs(cs, scale, temp, density, success, energy) ==
    LET key == get_cell_key(scale, temp, density)
        cell == CellAt(cs, key)
        counted == [cell EXCEPT !.n_runs = @ + 1,
                                !.n_success = IF success THEN @ + 1 ELSE @,
                                !.n_failures = IF success THEN @ ELSE @ + 1]
    IN SetCell(cs, key, IF success
                        THEN UpdateStatistics(counted, counted.n_runs, FromInt(energy))
                        ELSE counted)

\* record_run starting the cell again on a failure
record_run_restarting(cs, scale, temp, density, success, energy) ==
    LET key == get_cell_key(scale, temp, density)
        cell == CellAt(cs, key)
        counted == [cell EXCEPT !.n_runs = @ + 1, !.n_success = @ + 1]
    IN SetCell(cs, key, IF success
                        THEN UpdateStatistics(counted, counted.n_success,
                                              FromInt(energy))
                        ELSE [NewCell(key) EXCEPT !.n_runs = 1, !.n_failures = 1])

\* GapTargeter.record_run
record_run(cs, scale, temp, density, success, energy) ==
    LET key == get_cell_key(scale, temp, density)
        cell == CellAt(cs, key)
        counted == [cell EXCEPT !.n_runs = @ + 1,
                                !.n_success = IF success THEN @ + 1 ELSE @,
                                !.n_failures = IF success THEN @ ELSE @ + 1]
    IN SetCell(cs, key, IF success
                        THEN UpdateStatistics(counted, counted.n_success,
                                              FromInt(energy))
                        ELSE counted)

\* the six neighbours of a key along the axes, those outside the grid included
Neighbors(key) ==
    { << key[1] - 1, key[2], key[3] >>, << key[1] + 1, key[2], key[3] >>,
      << key[1], key[2] - 1, key[3] >>, << key[1], key[2] + 1, key[3] >>,
      << key[1], key[2], key[3] - 1 >>, << key[1], key[2], key[3] + 1 >> }

\* the squares of the mismatches of a cell against its neighbours in the grid
\* that have two successes and a positive combined deviation
MismatchesSq(cs, key) ==
    LET cell == cs[key]
        usable == {nk \in Neighbors(key) \cap Keys :
                     /\ CellAt(cs, nk).n_success >= 2
                     /\ FLess(Zero, FAdd(cell.std_energy_sq,
                                         CellAt(cs, nk).std_energy_sq))}
    IN {LET neighbor == CellAt(cs, nk)
            delta == FSub(cell.mean_energy, neighbor.mean_energy)
        IN FDiv(FMul(delta, delta), FAdd(cell.std_energy_sq, neighbor.std_energy_sq))
        : nk \in usable}

\* compute_mismatches asking two successes of the cell only, not of the
\* neighbour
compute_mismatches_any_neighbor(cs) ==
    [key \in DOMAIN cs |->
        LET cell == cs[key]
            usable == {nk \in Neighbors(key) \cap Keys :
                         FLess(Zero, FAdd(cell.std_energy_sq,
                                          CellAt(cs, nk).std_energy_sq))}
            found == {LET delta == FSub(cell.mean_energy, CellAt(cs, nk).mean_energy)
                      IN FDiv(FMul(delta, delta),
                              FAdd(cell.std_energy_sq, CellAt(cs, nk).std_energy_sq))
                      : nk \in usable}
        IN IF cell.n_success < 2 \/ found = {} THEN cell
           ELSE [cell EXCEPT !.max_mismatch_sq = FMax(found)]]

\* GapTargeter.compute_mismatches: it reads counters, means and deviations and
\* writes max_mismatch only, so the order of the cells does not matter
compute_mismatches(cs) ==
    [key \in DOMAIN cs |->
        IF cs[key].n_success < 2 \/ MismatchesSq(cs, key) = {} THEN cs[key]
        ELSE [cs[key] EXCEPT !.max_mismatch_sq = FMax(MismatchesSq(cs, key))]]

\* the sort key of a cell, (c.n_runs, -c.max_mismatch) or
\* (c.n_runs, c.max_mismatch), and the order of the keys
GapKey(cell) == << cell.n_runs, cell.max_mismatch_sq >>
GapKeyLess(x, y, negated) ==
    \/ x[1] < y[1]
    \/ x[1] = y[1] /\ (IF negated THEN FLess(y[2], x[2]) ELSE FLess(x[2], y[2]))

\* the sort keys of a set in ascending order
RECURSIVE Ascending(_, _)
Ascending(S, negated) ==
    IF S = {} THEN <<>>
    ELSE LET least == CHOOSE x \in S : \A y \in S : ~GapKeyLess(y, x, negated)
         IN << least >> \o Ascending(S \ {least}, negated)

RECURSIVE Concat(_)
Concat(lists) == IF lists = <<>> THEN <<>> ELSE Head(lists) \o Concat(Tail(lists))

\* list.sort is stable, so the result is, for each sort key in ascending
\* order, the cells of that key in the order they have in the list
StableSort(cs, gaps, negated) ==
    LET sort_keys == Ascending({GapKey(CellAt(cs, key)) : key \in Range(gaps)}, negated)
    IN Concat([n \in DOMAIN sort_keys |->
                  SelectSeq(gaps, LAMBDA key : GapKey(CellAt(cs, key)) = sort_keys[n])])

\* the sort with key (c.n_runs, c.max_mismatch)
sort_gaps_mismatch_ascending(cs, gaps) == StableSort(cs, gaps, FALSE)

\* gaps.sort(key=lambda c: (c.n_runs, -c.max_mismatch))
sort_gaps(cs, gaps) == StableSort(cs, gaps, TRUE)

\* Cell.is_sparse with <= for <
is_sparse_inclusive(cell, threshold) == cell.n_runs <= threshold

\* Cell.is_sparse
is_sparse(cell, threshold) == cell.n_runs < threshold

\* the default thresholds of identify_gaps
default_sparse_threshold == 10
default_mismatch_threshold == << 1, 2 >>

\* GapTargeter.identify_gaps: the cells after compute_mismatches, and the
\* list of gaps, each cell given by its key
identify_gaps(cs, sparse_threshold, mismatch_threshold) ==
    LET updated == compute_mismatches(cs)
        gaps == SelectSeq(KeyOrder,
                          LAMBDA key :
                             \/ is_sparse(CellAt(updated, key), sparse_threshold)
                             \/ is_high_mismatch(CellAt(updated, key),
                                                 mismatch_threshold))
    IN [cells |-> updated, gaps |-> sort_gaps(updated, gaps)]

\* GapTargeter._generate_formula
generate_formula(scale) ==
    IF scale <= 5 THEN "H2O"
    ELSE IF scale <= 20 THEN "CH4"
    ELSE IF scale <= 50 THEN "C6H6"
    ELSE "C10H22"

\* the offset of the seeds of schedule_runs
seed_base == 1000000

\* the config of the i-th run (i from 0) of a list of gaps
Config(cell, i) ==
    [scale |-> cell.scale, temp |-> cell.temp, density |-> cell.density,
     formula |-> generate_formula(cell.scale), seed |-> i + seed_base]

\* schedule_runs giving every run to the first gap
schedule_runs_first_gap(cs, n_runs) ==
    LET found == identify_gaps(cs, default_sparse_threshold, default_mismatch_threshold)
    IN [cells |-> found.cells, gaps |-> found.gaps,
        schedule |-> IF found.gaps = <<>> THEN <<>>
                     ELSE [n \in 1..n_runs |->
                              Config(CellAt(found.cells, found.gaps[1]), n - 1)]]

\* GapTargeter.schedule_runs: the cells after identify_gaps, the gaps it found
\* and the schedule returned
schedule_runs(cs, n_runs) ==
    LET found == identify_gaps(cs, default_sparse_threshold, default_mismatch_threshold)
    IN [cells |-> found.cells, gaps |-> found.gaps,
        schedule |-> IF found.gaps = <<>> THEN <<>>
                     ELSE [n \in 1..n_runs |->
                              Config(CellAt(found.cells,
                                            found.gaps[((n - 1) % Len(found.gaps)) + 1]),
                                     n - 1)]]

\* what the meso-sim process of one config can do
Outcomes == { "ok", "exit_nonzero", "timeout", "no_energy", "unparsable_energy" }


\* execute_schedule, one config: the success and energy it passes to
\* record_run.  energy = 0.0 unless "Final energy:" is in stdout; success is
\* returncode == 0; TimeoutExpired and the ValueError of float() are caught
\* and recorded with success=False.
run_result(exit) ==
    CASE exit = "ok" -> [success |-> TRUE, energy |-> 6]
      [] exit = "exit_nonzero" -> [success |-> FALSE, energy |-> 0]
      [] exit = "timeout" -> [success |-> FALSE, energy |-> 0]
      [] exit = "no_energy" -> [success |-> TRUE, energy |-> 0]
      [] exit = "unparsable_energy" -> [success |-> FALSE, energy |-> 0]

\* parameters of direct record_run calls: on a bin, between bins (scale 4 is
\* nearer to 5, temperature 75 is as near to 50 as to 100) and out of range
RunPoints == { << 2, 50, 1 >>, << 4, 75, 6 >>, << 1000, 9999, 5000 >> }

\* success and energy of direct record_run calls
RunResults == { << TRUE, -3 >>, << TRUE, 6 >>, << FALSE, 6 >> }

\* sparse_threshold and mismatch_threshold of direct identify_gaps calls: the
\* defaults, and thresholds that cells of the model get over
Thresholds ==
    { << default_sparse_threshold, default_mismatch_threshold >>,
      << 2, default_mismatch_threshold >>, << 2, << 2, 1 >> >> }

\* --fill N
Fills == (0..MaxFill) \cup {Len(KeyOrder) + 1}

\* history: the seeds of the configs of a schedule
SeedsOf(configs) == {configs[i].seed : i \in DOMAIN configs}

\* main is between schedule_runs and the end of execute_schedule
Executing == run_index < Len(schedule)

\* history: one more successful energy for a cell
Remembered(h, key, energy) ==
    LET bag == IF key \in DOMAIN h THEN h[key] ELSE <<>>
        copies == IF energy \in DOMAIN bag THEN bag[energy] ELSE 0
    IN [k \in DOMAIN h \cup {key} |->
           IF k = key
           THEN [e \in DOMAIN bag \cup {energy} |->
                    IF e = energy THEN copies + 1 ELSE bag[e]]
           ELSE h[k]]

RecordRun ==
    /\ ~Executing
    /\ n_recorded < MaxRuns
    /\ \E point \in RunPoints, result \in RunResults :
          LET success == result[1]
              energy == result[2]
          IN /\ cells' = record_run(cells, point[1], point[2], point[3], success,
                                    energy)
             /\ successes' = IF success
                             THEN Remembered(successes,
                                             get_cell_key(point[1], point[2], point[3]),
                                             energy)
                             ELSE successes
             /\ args' = [fn |-> "record_run", scale |-> point[1], temp |-> point[2],
                         density |-> point[3], success |-> success,
                         energy |-> energy]
    /\ n_recorded' = n_recorded + 1
    /\ ret' = NoRet
    /\ UNCHANGED <<schedule, run_index, cvars, dvars, xvars>>

ComputeMismatches ==
    /\ ~Executing
    /\ cells' = compute_mismatches(cells)
    /\ args' = [fn |-> "compute_mismatches"]
    /\ ret' = NoRet
    /\ UNCHANGED <<schedule, run_index, n_recorded, successes, cvars, dvars, xvars>>

IdentifyGaps ==
    /\ ~Executing
    /\ \E thresholds \in Thresholds :
          LET found == identify_gaps(cells, thresholds[1], thresholds[2])
          IN /\ cells' = found.cells
             /\ ret' = [fn |-> "identify_gaps", gaps |-> found.gaps]
             /\ args' = [fn |-> "identify_gaps",
                         sparse_threshold |-> thresholds[1],
                         mismatch_threshold |-> thresholds[2]]
    /\ UNCHANGED <<schedule, run_index, n_recorded, successes, cvars, dvars, xvars>>

\* main: schedule = targeter.schedule_runs(args.fill)
ScheduleRuns ==
    /\ ~Executing
    /\ \E n_runs \in Fills :
          LET result == schedule_runs(cells, n_runs)
          IN /\ cells' = result.cells
             /\ schedule' = result.schedule
             /\ ret' = [fn |-> "schedule_runs", gaps |-> result.gaps,
                        schedule |-> result.schedule]
             /\ args' = [fn |-> "schedule_runs", n_runs |-> n_runs]
             /\ seeds_used' = seeds_used \cup SeedsOf(result.schedule)
    /\ run_index' = 0
    /\ UNCHANGED <<n_recorded, successes, cvars, dvars, report, workers, targeted, saved>>

\* main: if schedule: targeter.execute_schedule(schedule), one turn of
\* "for i, config in enumerate(schedule, 1)"; the schedule is dropped after
\* its last config
ExecuteRun ==
    /\ Executing
    /\ n_recorded < MaxExecuted
    /\ \E exit \in Outcomes :
          LET config == schedule[run_index + 1]
              result == run_result(exit)
          IN /\ cells' = record_run(cells, config.scale, config.temp, config.density,
                                    result.success, result.energy)
             /\ successes' = IF result.success
                             THEN Remembered(successes,
                                             get_cell_key(config.scale, config.temp,
                                                          config.density),
                                             result.energy)
                             ELSE successes
             /\ args' = [fn |-> "execute_schedule", config |-> config,
                         outcome |-> exit]
    /\ IF run_index + 1 < Len(schedule)
       THEN run_index' = run_index + 1 /\ schedule' = schedule
       ELSE run_index' = 0 /\ schedule' = <<>>
    /\ n_recorded' = n_recorded + 1
    /\ ret' = NoRet
    /\ UNCHANGED <<cvars, dvars, xvars>>

(***************************************************************************)
(* Coverage report: save_coverage_report and the --load path of main       *)
(***************************************************************************)
\* Cell.success_rate
success_rate(cell) == IF cell.n_runs > 0 THEN Frac(cell.n_success, cell.n_runs) ELSE Zero

\* save_coverage_report: report["cells"], one entry for every cell with
\* n_runs > 0, given by its indices; std_energy and the two other counters
\* are not among the fields.  json.dump and json.load give a float back as
\* it was.
save_coverage_report(cs) ==
    [key \in {k \in DOMAIN cs : cs[k].n_runs > 0} |->
        [indices |-> key, scale |-> cs[key].scale, temp |-> cs[key].temp,
         density |-> cs[key].density, n_runs |-> cs[key].n_runs,
         success_rate |-> success_rate(cs[key]),
         mean_energy |-> cs[key].mean_energy,
         max_mismatch_sq |-> cs[key].max_mismatch_sq]]

\* int(cell_data["n_runs"] * cell_data["success_rate"]): the product cut to
\* an integer.  The rate is the double nearest to n_success / n_runs and the
\* product is rounded again; up to 21 runs it is the exact product (the
\* smallest loss is 15 successes of 22 runs, restored as 14).
restored_successes(n_runs, rate) == (n_runs * rate[1]) \div rate[2]

\* main --load without the failures, which the report does not carry
load_without_failures(cell_data) ==
    [key \in DOMAIN cell_data |->
        [NewCell(key) EXCEPT
            !.n_runs = cell_data[key].n_runs,
            !.n_success = restored_successes(cell_data[key].n_runs,
                                             cell_data[key].success_rate),
            !.mean_energy = cell_data[key].mean_energy,
            !.max_mismatch_sq = cell_data[key].max_mismatch_sq]]

\* main, "if args.load": the cells of a new GapTargeter after the loop over
\* data["cells"]; std_energy keeps the 0.0 of a new Cell
load(cell_data) ==
    [key \in DOMAIN cell_data |->
        LET n_runs == cell_data[key].n_runs
            n_success == restored_successes(n_runs, cell_data[key].success_rate)
        IN [NewCell(key) EXCEPT
               !.n_runs = n_runs,
               !.n_success = n_success,
               !.n_failures = n_runs - n_success,
               !.mean_energy = cell_data[key].mean_energy,
               !.max_mismatch_sq = cell_data[key].max_mismatch_sq]]

\* record_run calls of the grid that is saved and loaded
MaxReloadRuns == 4

SaveCoverageReport ==
    /\ ~Executing
    /\ report' = [state |-> "saved", cells |-> save_coverage_report(cells)]
    /\ saved' = cells
    /\ args' = [fn |-> "save_coverage_report"]
    /\ ret' = NoRet
    /\ UNCHANGED <<cells, schedule, run_index, n_recorded, successes, cvars, dvars,
                   seeds_used, workers, targeted>>

\* main of a later process: targeter = GapTargeter(args.output) and the load
\* of the report of the output directory
Load ==
    /\ ~Executing
    /\ report.state = "saved"
    /\ cells' = load(report.cells)
    /\ successes' = <<>>
    /\ args' = [fn |-> "load"]
    /\ ret' = NoRet
    /\ UNCHANGED <<schedule, run_index, n_recorded, cvars, dvars, xvars>>

\* execute_schedule interrupted by the operator (Ctrl-C) while the run of a
\* config is in flight: KeyboardInterrupt is raised inside subprocess.run,
\* which kills the child; it is no Exception, so "except Exception" does not
\* catch it, record_run is not called, and it leaves execute_schedule and
\* main before save_coverage_report.  The process ends and its grid with it.
Cancel ==
    /\ Executing
    /\ args' = [fn |-> "cancel", config |-> schedule[run_index + 1]]
    /\ ret' = NoRet
    /\ cells' = <<>>
    /\ successes' = <<>>
    /\ seeds_used' = {}
    /\ schedule' = <<>>
    /\ run_index' = 0
    /\ UNCHANGED <<n_recorded, cvars, dvars, report, workers, targeted, saved>>

GridSpecInit ==
    /\ CatalogInit
    /\ GridInit
    /\ args = NoArgs
    /\ ret = NoRet

\* record_run, compute_mismatches and identify_gaps called in any order
GridNext ==
    \/ RecordRun
    \/ ComputeMismatches
    \/ IdentifyGaps

SpecGrid == GridSpecInit /\ [][GridNext]_vars

\* main --fill, again and again on one GapTargeter
FillNext ==
    \/ ScheduleRuns
    \/ ExecuteRun

SpecFill == GridSpecInit /\ [][FillNext]_vars

\* main --fill with its report at the end, and an operator who may interrupt
\* the batch
BatchNext ==
    \/ ScheduleRuns
    \/ ExecuteRun
    \/ Cancel
    \/ SaveCoverageReport

SpecBatch == GridSpecInit /\ [][BatchNext]_vars

\* the bin indices nearest to a value on an axis (more than one on a tie)
NearestBins(bins, x) ==
    {i \in 0..(Len(bins) - 1) :
        \A j \in 0..(Len(bins) - 1) : Abs(bins[i + 1] - x) <= Abs(bins[j + 1] - x)}

\* the cells a call record_run(scale, temp, density, ...) may go to
NearestKeys(call) ==
    NearestBins(scale_bins, call.scale) \X NearestBins(temp_bins, call.temp)
        \X NearestBins(density_bins, call.density)

\* the keys of the cells that a step changes
ChangedKeys == {key \in Keys : CellAt(cells', key) # CellAt(cells, key)}

\* a failure has been counted in a cell and nothing else has changed in it
FailureCounted(old, new) ==
    new = [old EXCEPT !.n_runs = @ + 1, !.n_failures = @ + 1]

\* C15: record_run with success = false adds one to n_runs and to n_failures
\* of the target cell and leaves its n_success, mean_energy and std_energy
\* unchanged; every record_run changes only the one cell that the nearest
\* bins of its three parameters select.
C15_FailureLeavesStatistics ==
    [][(args'.fn = "record_run" /\ n_recorded' = n_recorded + 1) =>
          /\ Cardinality(ChangedKeys) = 1
          /\ ChangedKeys \subseteq NearestKeys(args')
          /\ ~args'.success =>
                \A key \in ChangedKeys :
                   /\ FailureCounted(CellAt(cells, key), CellAt(cells', key))
                   /\ CellAt(cells', key).n_success = CellAt(cells, key).n_success
                   /\ CellAt(cells', key).mean_energy = CellAt(cells, key).mean_energy
                   /\ CellAt(cells', key).std_energy_sq
                         = CellAt(cells, key).std_energy_sq]_vars

\* C15 witness: a failure recorded with out-of-range parameters in a cell that
\* has successes, a mean and a deviation
C15_FailureAfterSuccesses ==
    /\ args.fn = "record_run"
    /\ ~args.success
    /\ args.scale > scale_bins[Len(scale_bins)]
    /\ LET cell == CellAt(cells, get_cell_key(args.scale, args.temp, args.density))
       IN /\ cell.n_success >= 2
          /\ cell.n_failures >= 1
          /\ cell.mean_energy # Zero
          /\ cell.std_energy_sq # Zero

\* history: the energies remembered for a cell, and the total of a term over
\* them
BagOf(key) == IF key \in DOMAIN successes THEN successes[key] ELSE <<>>

RECURSIVE SumBag(_, _, _)
SumBag(bag, S, term) ==
    IF S = {} THEN Zero
    ELSE LET e == CHOOSE x \in S : TRUE
         IN FAdd(FMul(FromInt(bag[e]), term[e]), SumBag(bag, S \ {e}, term))

BagSize(bag) == SumBag(bag, DOMAIN bag, [e \in DOMAIN bag |-> FromInt(1)])
BagMean(bag) ==
    FDiv(SumBag(bag, DOMAIN bag, [e \in DOMAIN bag |-> FromInt(e)]), BagSize(bag))
BagVariance(bag, mean) ==
    FDiv(SumBag(bag, DOMAIN bag,
                [e \in DOMAIN bag |->
                    FMul(FSub(FromInt(e), mean), FSub(FromInt(e), mean))]),
         BagSize(bag))

\* C17: after any sequence of record_run calls the mean_energy of a cell is
\* the arithmetic mean of the energies of its successful runs and the square
\* of its std_energy their variance (divisor n), whatever failures came in
\* between.
C17_RunningStatisticsAreBatch ==
    \A key \in Keys :
        LET cell == CellAt(cells, key)
            bag == BagOf(key)
        IN /\ FromInt(cell.n_success) = BagSize(bag)
           /\ cell.n_runs = cell.n_success + cell.n_failures
           /\ cell.n_success > 0 =>
                 LET mean == BagMean(bag)
                 IN /\ cell.mean_energy = mean
                    /\ cell.std_energy_sq = BagVariance(bag, mean)

\* C17 witness: a cell with three successes of two energies and a failure
C17_SuccessesAndFailures ==
    \E key \in Keys :
        /\ CellAt(cells, key).n_success >= 3
        /\ CellAt(cells, key).n_failures >= 1
        /\ Cardinality(DOMAIN BagOf(key)) >= 2

\* max_mismatch <= threshold, for a threshold that is not negative
MismatchAtMost(cell, threshold) ==
    ~FLess(FMul(threshold, threshold), cell.max_mismatch_sq)

\* C18: identify_gaps returns every cell with n_runs < sparse_threshold, the
\* cells never run included, returns no cell with n_runs >= sparse_threshold
\* and max_mismatch <= mismatch_threshold, and returns no cell twice.
C18_GapsAreSparseOrMismatched ==
    ret.fn = "identify_gaps" =>
        LET gaps == ret.gaps
        IN /\ \A key \in Keys :
                 LET cell == CellAt(cells, key)
                 IN /\ cell.n_runs < args.sparse_threshold => key \in Range(gaps)
                    /\ (/\ cell.n_runs >= args.sparse_threshold
                        /\ MismatchAtMost(cell, args.mismatch_threshold))
                          => key \notin Range(gaps)
           /\ Range(gaps) \subseteq Keys
           /\ \A i \in DOMAIN gaps, j \in DOMAIN gaps : i # j => gaps[i] # gaps[j]

\* C18 witness: a cell never run is returned, a cell is returned for its
\* mismatch alone, and a cell with enough runs and no mismatch is left out
C18_AllThreeKinds ==
    /\ ret.fn = "identify_gaps"
    /\ \E key \in Range(ret.gaps) : CellAt(cells, key).n_runs = 0
    /\ \E key \in Range(ret.gaps) :
          /\ CellAt(cells, key).n_runs >= args.sparse_threshold
          /\ ~MismatchAtMost(CellAt(cells, key), args.mismatch_threshold)
    /\ \E key \in Keys \ Range(ret.gaps) :
          CellAt(cells, key).n_runs >= args.sparse_threshold

\* C19: the list of identify_gaps is in ascending order of n_runs, cells of
\* equal n_runs in descending order of max_mismatch.
C19_GapsOrdered ==
    ret.fn = "identify_gaps" =>
        \A i \in DOMAIN ret.gaps, j \in DOMAIN ret.gaps :
            i < j =>
               LET first == CellAt(cells, ret.gaps[i])
                   second == CellAt(cells, ret.gaps[j])
               IN \/ first.n_runs < second.n_runs
                  \/ /\ first.n_runs = second.n_runs
                     /\ ~FLess(first.max_mismatch_sq, second.max_mismatch_sq)

\* C19 witness: the list has cells of different n_runs, and two cells of equal
\* n_runs and different max_mismatch
C19_TieBrokenByMismatch ==
    /\ ret.fn = "identify_gaps"
    /\ \E i \in DOMAIN ret.gaps, j \in DOMAIN ret.gaps :
          /\ CellAt(cells, ret.gaps[i]).n_runs = CellAt(cells, ret.gaps[j]).n_runs
          /\ FLess(CellAt(cells, ret.gaps[j]).max_mismatch_sq,
                   CellAt(cells, ret.gaps[i]).max_mismatch_sq)
    /\ \E i \in DOMAIN ret.gaps, j \in DOMAIN ret.gaps :
          CellAt(cells, ret.gaps[i]).n_runs < CellAt(cells, ret.gaps[j]).n_runs

\* the total of n_runs over the grid
RECURSIVE TotalRuns(_, _)
TotalRuns(cs, S) ==
    IF S = {} THEN 0
    ELSE LET key == CHOOSE k \in S : TRUE
         IN CellAt(cs, key).n_runs + TotalRuns(cs, S \ {key})

\* C16: in execute_schedule every invocation is recorded by exactly one
\* record_run call, and an invocation that fails by a non-zero exit code, by
\* timeout or by malformed output (exit code 0 and no parsable final energy)
\* is recorded as a failure of its cell, whose mean_energy and std_energy do
\* not change.
C16_FailedInvocationsCounted ==
    [][(args'.fn = "execute_schedule" /\ n_recorded' = n_recorded + 1) =>
          /\ TotalRuns(cells', Keys) = TotalRuns(cells, Keys) + 1
          /\ args'.outcome \in {"exit_nonzero", "timeout", "no_energy",
                                "unparsable_energy"} =>
                LET key == get_cell_key(args'.config.scale, args'.config.temp,
                                        args'.config.density)
                IN FailureCounted(CellAt(cells, key), CellAt(cells', key))]_vars

\* the gap a config targets: the cell of its scale, temperature and density
Targets(config, cell) ==
    /\ config.scale = cell.scale
    /\ config.temp = cell.temp
    /\ config.density = cell.density

ClassifierMetalAtoms(element_counts) ==
    SumOver(element_counts, DOMAIN element_counts \cap metals)

\* C29: the scorer and the classifier agree on the metals: the atoms that
\* count towards the metal richness wM of a composition are the atoms of the
\* classifier's metals, so wM > 1 exactly when the classifier sees a metal.
C29_ScorerCountsClassifierMetals ==
    (ret.fn = "score_molecule" /\ args.N >= 1) =>
        /\ ret.breakdown.wM =
               1000 + (alpha_metal * ClassifierMetalAtoms(args.element_counts)) \div args.N
        /\ (ret.breakdown.wM > 1000) <=> (ClassifierMetalAtoms(args.element_counts) > 0)


\* ---------------------------------------------------------------------------
\* The stability gate of a run card's score
\* ---------------------------------------------------------------------------

\* the gate that belongs to a health
GateOfHealth(health) ==
    CASE health = "converged" -> 1000
      [] health = "bounded" -> 300
      [] OTHER -> 50

\* C30: the stability gate wS of the score of a run follows the health of the
\* run (converged 1.0, bounded 0.3, exploded or invalid 0.05), whatever the
\* parsed converged and stable flags are.
C30_GateFollowsHealth ==
    ret.fn = "calculate_priority_score" => ret.breakdown.wS = GateOfHealth(ret.health)


\* ---------------------------------------------------------------------------
\* The seeds of the scheduled runs
\* ---------------------------------------------------------------------------

\* C21: every config of schedule_runs gets a fresh seed: no two configs of a
\* schedule share a seed, and no config has a seed that a config of an
\* earlier schedule of the same grid had (the output file of a run is
\* /tmp/gap_fill_<seed>.xyz).
C21_SeedsNeverShared ==
    [][ret'.fn = "schedule_runs" /\ args'.fn = "schedule_runs" /\ schedule' = ret'.schedule =>
          /\ \A i, j \in DOMAIN schedule' :
                schedule'[i].seed = schedule'[j].seed => i = j
          /\ SeedsOf(schedule') \cap seeds_used = {}]_vars


\* ---------------------------------------------------------------------------
\* The frame of compute_mismatches
\* ---------------------------------------------------------------------------

\* the cells of the grid one step away from a cell along one axis
AxisNeighbours(key) ==
    {nk \in Keys : Abs(nk[1] - key[1]) + Abs(nk[2] - key[2]) + Abs(nk[3] - key[3]) = 1}

\* the neighbours a cell is compared with: the cell and the neighbour have
\* two successes and the combined variance is not zero
QualifyingNeighbours(cs, key) ==
    {nk \in AxisNeighbours(key) :
        /\ CellAt(cs, key).n_success >= 2
        /\ CellAt(cs, nk).n_success >= 2
        /\ FAdd(CellAt(cs, key).std_energy_sq, CellAt(cs, nk).std_energy_sq) # Zero}

\* the square of |mean - mean| / sqrt(std^2 + std^2) of two cells
PairMismatchSq(cs, key, nk) ==
    LET delta == FSub(CellAt(cs, key).mean_energy, CellAt(cs, nk).mean_energy)
    IN FDiv(FMul(delta, delta),
            FAdd(CellAt(cs, key).std_energy_sq, CellAt(cs, nk).std_energy_sq))

\* C22: compute_mismatches compares a cell with its axis neighbours in the
\* grid only, and only when both have two successes and a combined variance
\* that is not zero; the max_mismatch of a cell with such a neighbour becomes
\* the maximum over these neighbours, the max_mismatch of every other cell
\* stays, and no other field of any cell changes.
C22_MismatchFrame ==
    [][args'.fn = "compute_mismatches" =>
          \A key \in Keys :
              LET old == CellAt(cells, key)
                  new == CellAt(cells', key)
                  qualifying == QualifyingNeighbours(cells, key)
              IN /\ [new EXCEPT !.max_mismatch_sq = old.max_mismatch_sq] = old
                 /\ IF qualifying = {}
                    THEN new.max_mismatch_sq = old.max_mismatch_sq
                    ELSE /\ \E nk \in qualifying :
                               new.max_mismatch_sq = PairMismatchSq(cells, key, nk)
                         /\ \A nk \in qualifying :
                               ~FLess(new.max_mismatch_sq, PairMismatchSq(cells, key, nk))]_vars

\* C22 witness: after compute_mismatches a cell has a mismatch from a
\* qualifying neighbour, and two neighbouring cells of two successes each
\* were not compared because their combined variance is zero
C22_ComparedAndSkipped ==
    /\ args.fn = "compute_mismatches"
    /\ \E key \in Keys :
          /\ QualifyingNeighbours(cells, key) # {}
          /\ FLess(Zero, CellAt(cells, key).max_mismatch_sq)
    /\ \E key \in Keys : \E nk \in AxisNeighbours(key) :
          /\ CellAt(cells, key).n_success >= 2
          /\ CellAt(cells, nk).n_success >= 2
          /\ nk \notin QualifyingNeighbours(cells, key)


\* ---------------------------------------------------------------------------
\* The state machine of a cell
\* ---------------------------------------------------------------------------

\* sparse thresholds that cells of the model reach
SparseThresholds == {1, 2, 3}

\* C26: the counters n_runs, n_success and n_failures of a cell never
\* decrease under record_run, compute_mismatches and identify_gaps (the only
\* way schedule_runs touches the grid), so a sampled cell never becomes empty
\* and an adequate cell (n_runs at or over the sparse threshold) never becomes
\* sparse again; a cell can be adequate and high-mismatch at once.
C26_CountersNeverDecrease ==
    [][\A key \in Keys :
          LET old == CellAt(cells, key)
              new == CellAt(cells', key)
          IN /\ new.n_runs >= old.n_runs
             /\ new.n_success >= old.n_success
             /\ new.n_failures >= old.n_failures
             /\ old.n_runs > 0 => new.n_runs > 0
             /\ \A threshold \in SparseThresholds \cup {default_sparse_threshold} :
                   ~is_sparse(old, threshold) => ~is_sparse(new, threshold)]_vars

\* C26 witness: a run has been recorded in a cell that was adequate and
\* high-mismatch, and the cell is still adequate and high-mismatch
C26_AdequateAndHighMismatch ==
    /\ args.fn = "record_run"
    /\ LET cell == CellAt(cells, get_cell_key(args.scale, args.temp, args.density))
       IN /\ cell.n_runs >= 3
          /\ ~is_sparse(cell, 2)
          /\ is_high_mismatch(cell, default_mismatch_threshold)


\* runs recorded, mismatches computed, the report saved and loaded
ReloadNext ==
    \/ (n_recorded < MaxReloadRuns /\ RecordRun)
    \/ ComputeMismatches
    \/ SaveCoverageReport
    \/ Load

SpecReload == GridSpecInit /\ [][ReloadNext]_vars

\* C27: in every state of the grid, after record_run calls (of values in and
\* out of the range of the bins) and after the load of a saved report, the
\* counters of every cell are not negative and n_runs = n_success +
\* n_failures, and the cells that hold data are cells of the fixed grid.
C27_CountersConsistent ==
    /\ DOMAIN cells \subseteq Keys
    /\ \A key \in Keys :
          LET cell == CellAt(cells, key)
          IN /\ cell.n_runs >= 0
             /\ cell.n_success >= 0
             /\ cell.n_failures >= 0
             /\ cell.n_runs = cell.n_success + cell.n_failures

\* C27 witness: a report has been loaded in which a cell has successes and
\* failures and the last cell of the grid has a run
C27_LoadedMixedCell ==
    /\ args.fn = "load"
    /\ \E key \in Keys :
          CellAt(cells, key).n_success > 0 /\ CellAt(cells, key).n_failures > 0
    /\ CellAt(cells, KeyOrder[Len(KeyOrder)]).n_runs > 0

\* C28: the load of a saved report gives every cell that had runs the
\* n_runs, n_success, n_failures, mean_energy, std_energy and max_mismatch
\* it had when the report was saved.
C28_LoadRestoresCells ==
    [][args'.fn = "load" =>
          \A key \in Keys :
              CellAt(saved, key).n_runs > 0 => CellAt(cells', key) = CellAt(saved, key)]_vars


\* ---------------------------------------------------------------------------
\* Cancellation of a batch
\* ---------------------------------------------------------------------------

\* C24: when the operator cancels a batch while execute_schedule is running,
\* no further config of the schedule is dispatched, and the run in flight
\* completes and is recorded: the grid with the result of that run, whatever
\* its outcome, is what the coverage report then holds.
C24_CancelKeepsRunInFlight ==
    [][args'.fn = "cancel" =>
          /\ ~Executing'
          /\ \E exit \in Outcomes :
                LET config == args'.config
                    result == run_result(exit)
                    recorded == record_run(cells, config.scale, config.temp,
                                           config.density, result.success, result.energy)
                IN report' = [state |-> "saved",
                              cells |-> save_coverage_report(recorded)]]_vars


(***************************************************************************)
(* record_run called by concurrent workers on one GapTargeter              *)
(***************************************************************************)
\* record_run takes no lock, and "cell.n_runs += 1" is a read of the
\* attribute followed by a write of it: another thread can run between the
\* two.  Each worker is in one record_run call at a time.

\* record_run calls of the workers
MaxCalls == 3

\* the counter that the call of a worker is reading or writing
CounterOf(call) ==
    IF call.pc \in {"load_runs", "store_runs"} THEN "n_runs"
    ELSE IF call.success THEN "n_success" ELSE "n_failures"

\* history: one more call for a cell
Targeted(h, key) ==
    [k \in DOMAIN h \cup {key} |->
        IF k = key THEN (IF key \in DOMAIN h THEN h[key] ELSE 0) + 1 ELSE h[k]]

\* key = self._get_cell_key(scale, temp, density); cell = self.cells[key]
BeginRecordRun(w) ==
    /\ workers[w].pc = "idle"
    /\ n_recorded < MaxCalls
    /\ \E point \in RunPoints, result \in RunResults :
          LET key == get_cell_key(point[1], point[2], point[3])
          IN /\ workers' = [workers EXCEPT ![w] =
                               [pc |-> "load_runs", key |-> key, success |-> result[1],
                                energy |-> result[2], loaded |-> 0]]
             /\ targeted' = Targeted(targeted, key)
    /\ n_recorded' = n_recorded + 1
    /\ UNCHANGED <<cells, schedule, run_index, successes, cvars, dvars, fvars,
                   seeds_used, report, saved>>

\* the read of "cell.n_runs += 1", "cell.n_success += 1" or
\* "cell.n_failures += 1"
LoadCounter(w) ==
    /\ workers[w].pc \in {"load_runs", "load_outcome"}
    /\ workers' = [workers EXCEPT
                      ![w].loaded = CellAt(cells, workers[w].key)[CounterOf(workers[w])],
                      ![w].pc = IF @ = "load_runs" THEN "store_runs" ELSE "store_outcome"]
    /\ UNCHANGED <<cells, schedule, run_index, n_recorded, successes, cvars, dvars, fvars,
                   seeds_used, report, targeted, saved>>

\* the write of it; a failed run ends here
StoreCounter(w) ==
    /\ workers[w].pc \in {"store_runs", "store_outcome"}
    /\ LET call == workers[w]
           cell == CellAt(cells, call.key)
       IN /\ cells' = SetCell(cells, call.key,
                              [cell EXCEPT ![CounterOf(call)] = call.loaded + 1])
          /\ workers' = [workers EXCEPT ![w] =
                            IF call.pc = "store_runs"
                            THEN [call EXCEPT !.pc = "load_outcome"]
                            ELSE IF call.success THEN [call EXCEPT !.pc = "statistics"]
                            ELSE Idle]
    /\ UNCHANGED <<schedule, run_index, n_recorded, successes, cvars, dvars, fvars,
                   seeds_used, report, targeted, saved>>

\* "if success:" the update of mean_energy and std_energy with
\* n = cell.n_success, taken as one step
UpdateEnergyStats(w) ==
    /\ workers[w].pc = "statistics"
    /\ LET call == workers[w]
           cell == CellAt(cells, call.key)
       IN cells' = SetCell(cells, call.key,
                           UpdateStatistics(cell, cell.n_success, FromInt(call.energy)))
    /\ workers' = [workers EXCEPT ![w] = Idle]
    /\ UNCHANGED <<schedule, run_index, n_recorded, successes, cvars, dvars, fvars,
                   seeds_used, report, targeted, saved>>

WorkersNext ==
    \E w \in Workers :
        \/ BeginRecordRun(w)
        \/ LoadCounter(w)
        \/ StoreCounter(w)
        \/ UpdateEnergyStats(w)

SpecWorkers == GridSpecInit /\ [][WorkersNext]_vars

\* C23: the updates of a cell are serialized: when the record_run calls of
\* concurrent workers have all returned, in whatever order their steps were
\* taken, every cell has n_runs equal to the number of calls that targeted
\* it, and n_success + n_failures equal to the same number.
C23_NoUpdateLost ==
    (\A w \in Workers : workers[w].pc = "idle") =>
        \A key \in Keys :
            LET k == IF key \in DOMAIN targeted THEN targeted[key] ELSE 0
                cell == CellAt(cells, key)
            IN /\ cell.n_runs = k
               /\ cell.n_success + cell.n_failures = k


(***************************************************************************)
(* Database lookup and validation (tools/chemical_validator.py)            *)
(***************************************************************************)
\* formulas looked up
Formulas == {"H2O", "CH4", "C7H5N3O6"}

\* data["PC_Compounds"] of a 200 answer: the names of the compounds; no
\* compound, one, one named "unstable", and more than the five that
\* _parse_pubchem_response keeps
Payloads ==
    { <<>>, <<"oxidane">>, <<"unstable">>,
      <<"a", "b", "c", "d", "e", "f">> }

\* what session.get and response.json() can do: a 200 answer with data, a
\* 200 answer whose body is no JSON or lacks a field the parser indexes, 404,
\* another status, and an exception of requests (timeout, no connection)
Responses ==
    [kind : {"ok"}, data : Payloads]
        \cup [kind : {"bad_json", "bad_payload", "not_found", "server_error",
                      "exception"}, data : {<<>>}]

\* the responses that are a failure of the lookup
LookupFailures == {r \in Responses : r.kind \in {"bad_json", "bad_payload",
                                                 "server_error", "exception"}}

\* _parse_pubchem_response: for compound in data['PC_Compounds'][:5]
parse_pubchem_response(data) == SubSeq(data, 1, Min(5, Len(data)))

\* lookup_by_formula without the try: an exception leaves the method
lookup_by_formula_uncaught(db, formula, response) ==
    IF formula \in DOMAIN db
    THEN [records |-> parse_pubchem_response(db[formula]), cache |-> db,
          contacted |-> FALSE, raised |-> FALSE]
    ELSE IF response.kind = "ok"
    THEN [records |-> parse_pubchem_response(response.data),
          cache |-> [f \in DOMAIN db \cup {formula} |->
                        IF f = formula THEN response.data ELSE db[f]],
          contacted |-> TRUE, raised |-> FALSE]
    ELSE [records |-> <<>>, cache |-> db, contacted |-> TRUE,
          raised |-> response.kind \in {"bad_json", "bad_payload", "exception"}]

\* ChemicalDatabase.lookup_by_formula: the cache first; else one GET, whose
\* 200 answer is parsed and then cached; every other status and every
\* exception inside the try give [].  raised: an exception left the method.
lookup_by_formula(db, formula, response) ==
    IF formula \in DOMAIN db
    THEN [records |-> parse_pubchem_response(db[formula]), cache |-> db,
          contacted |-> FALSE, raised |-> FALSE]
    ELSE IF response.kind = "ok"
    THEN [records |-> parse_pubchem_response(response.data),
          cache |-> [f \in DOMAIN db \cup {formula} |->
                        IF f = formula THEN response.data ELSE db[f]],
          contacted |-> TRUE, raised |-> FALSE]
    ELSE [records |-> <<>>, cache |-> db, contacted |-> TRUE, raised |-> FALSE]

\* validate_molecule, the confidence: 1.0 if known else 0.0, and 0.5 for a
\* known stable molecule that the simulation predicts unstable
confidence_of(matches, stability) ==
    LET is_known == Len(matches) > 0
        known_stable == \E i \in DOMAIN matches : matches[i] \notin {"unstable", "reactive"}
    IN IF ~is_known THEN 0
       ELSE IF stability = "stable" /\ known_stable THEN 1000
       ELSE IF stability = "unstable" /\ known_stable THEN 500
       ELSE 1000

\* MoleculeValidator.validate_molecule(formula, energy, stability)
ValidateMolecule ==
    \E formula \in Formulas, stability \in {"stable", "unstable", "metastable"},
       response \in Responses :
        LET found == lookup_by_formula(cache, formula, response)
            verdict == validate_molecule(Len(found.records) > 0, stability)
        IN /\ cache' = found.cache
           /\ args' = [fn |-> "validate_molecule", formula |-> formula,
                       stability |-> stability, response |-> response,
                       cached |-> formula \in DOMAIN cache]
           /\ ret' = IF found.raised
                     THEN [fn |-> "validate_molecule", raised |-> TRUE,
                           contacted |-> found.contacted]
                     ELSE [fn |-> "validate_molecule", raised |-> FALSE,
                           contacted |-> found.contacted,
                           is_known |-> verdict.is_known,
                           confidence |-> confidence_of(found.records, stability),
                           matches |-> found.records, novel |-> verdict.novel]
           /\ UNCHANGED <<cvars, gvars>>

ValidateNext == ValidateMolecule

SpecValidate == GridSpecInit /\ [][ValidateNext]_vars

\* C25: a failure of the lookup (an exception of the request or of the
\* parsing, or a status that is neither found nor not-found) never aborts
\* the validation: validate_molecule returns is_known = false with
\* confidence 0.0; and a formula that is in the cache gets the cached records
\* without a request to the service.
C25_LookupFailureDegrades ==
    ret.fn = "validate_molecule" =>
        /\ (~args.cached /\ args.response \in LookupFailures) =>
              /\ ~ret.raised
              /\ ret.contacted
              /\ ~ret.is_known
              /\ ret.confidence = 0
        /\ args.cached =>
              /\ ~ret.raised
              /\ ~ret.contacted
              /\ ret.matches = parse_pubchem_response(cache[args.formula])

\* C25 witness: a lookup has failed for a formula while the cache holds
\* another formula, and the validation returned unknown
C25_FailedLookupWithCache ==
    /\ ret.fn = "validate_molecule"
    /\ ~args.cached
    /\ args.response.kind = "exception"
    /\ ~ret.raised
    /\ ~ret.is_known
    /\ cache # <<>>

Init ==
    /\ CatalogInit
    /\ GridInit
    /\ args = NoArgs
    /\ ret = NoRet

Next ==
    \/ \E p \in Pipelines : Construct(p) /\ UNCHANGED <<fvars, gvars, dvars>>
    \/ Tick /\ UNCHANGED <<fvars, gvars, dvars>>
    \/ \E p \in Pipelines : AppendToCatalog(p) /\ UNCHANGED <<fvars, gvars, dvars>>
    \/ \E p \in Pipelines : SaveCatalog(p) /\ UNCHANGED <<fvars, gvars, dvars>>
    \/ \E p \in Pipelines : MakeRunDir(p) /\ UNCHANGED <<fvars, gvars, dvars>>
    \/ \E p \in Pipelines : CopyStructure(p) /\ UNCHANGED <<fvars, gvars, dvars>>
    \/ \E p \in Pipelines : FinishRunCard(p) /\ UNCHANGED <<fvars, gvars, dvars>>
    \/ \E p \in Pipelines : ProcessExit(p) /\ UNCHANGED <<fvars, gvars, dvars>>

Spec == Init /\ [][Next]_vars

(***************************************************************************)
(* The catalog: claims                                                     *)
(***************************************************************************)
\* the entries a reader of the persisted files sees
LogEntries == Range(LoadJson(catalog_file))
IndexedCards == Range(LoadJson(cards_index))

\* C1: every call of run_discovery_workflow appends exactly one entry to the
\* discovery log and exactly one card to the cards index: between calls, both
\* lists of an instance have grown by the number of calls made on it.
C1_OneEntryAndOneCardPerCall ==
    \A p \in Pipelines :
        pc[p] = "idle" =>
            /\ Len(catalog[p]) = loaded[p].catalog + calls[p]
            /\ Len(cards[p]) = loaded[p].cards + calls[p]

\* C2: the append is atomic for a reader of the persisted state: the runs in
\* the discovery log are the runs of the cards index, and every run directory
\* has its card in the index.
C2_AppendIsAtomic ==
    /\ LogEntries = {c.id : c \in IndexedCards}
    /\ \A r \in RunIds : run_dirs[r].exists => \E c \in IndexedCards : c.run_id = r

\* C3: the persisted discovery log and cards index are append-only whatever
\* instances write them: each complete version extends the complete version
\* before it.
C3_PersistedAppendOnly ==
    /\ catalog_file.state = "ok" => IsPrefix(persisted.catalog, catalog_file.data)
    /\ cards_index.state = "ok" => IsPrefix(persisted.cards, cards_index.data)

\* C4: run ids are collision-free: no two calls obtain the same run_id, so no
\* call writes into the run directory of another.
C4_RunIdsCollisionFree ==
    \A x \in issued, y \in issued : x[2] = y[2] => x[1] = y[1]

====
